---- MODULE Spec2Model ----
(***************************************************************************)
(* Model of the forecasting core of src/app.py: the weather fetch and its  *)
(* population-weighted aggregation, prepare_forecast_features, the         *)
(* sequential loop of make_predictions, categorize_demand,                 *)
(* build_weather_adjustment_paragraphs and the pipeline part of main.      *)
(*                                                                         *)
(* Numbers.  Python floats are held as integers:                           *)
(*   - weather quantities (degrees, mm) in units of 1/Scale, where         *)
(*     Scale = 2 * total population, so that a population-weighted sum of  *)
(*     integer readings and the midpoint (max+min)/2 are exact;            *)
(*   - demand values (searches) in units of one search;                    *)
(*   - NaN is the distinguished value NaN, and every comparison with it is *)
(*     false, as in IEEE arithmetic.                                       *)
(* Dates are day numbers counted from Monday 2024-01-01 (day 0).           *)
(***************************************************************************)
EXTENDS Integers, Sequences, FiniteSets, TLC

VARIABLES
    pc,                 \* position of the run
    caller,             \* "main": pipeline run of main(); otherwise the function called directly
    today,              \* datetime.now() of the run, as a day number
    csv,                \* the demand source: None (unreadable) or rows [Day, estimated_daily_searches]
    last_search_info,   \* result of get_last_known_search_value
    historical_stats,   \* result of load_historical_data
    weather_forecast,   \* result of fetch_weather_forecast: None or rows
    historical_weather, \* result of fetch_historical_weather: None or rows
    forecast_features,  \* first result of prepare_forecast_features
    full_df,            \* second result of prepare_forecast_features, mutated by make_predictions
    prepared_df,        \* full_df as prepare_forecast_features returned it (kept for comparison)
    historical_len,     \* the forecast start index handed to make_predictions
    i,                  \* loop counter of make_predictions
    predictions,        \* the list make_predictions builds
    returned,           \* what make_predictions returned to its caller (None before / on failure)
    calls,              \* the predictor's invocations so far: [idx, X]
    results_df,         \* the results table built by main (None until built)
    fetch_log,          \* the latest weather fetch: its kind, window and how each city's request ended
    model,              \* the injected predictor: "any" (returns any value) or a deterministic stub
    first_run,          \* what a first call of a function left, kept when the function is called again
    cd_in, cd_out,      \* categorize_demand: argument pair and result
    wx_in, wx_out,      \* build_weather_adjustment_paragraphs: argument row and result
    user_type_selected, \* st.session_state.user_type_selected
    user_type           \* st.session_state.user_type: a role identifier or NoRole

vars == <<pc, caller, today, csv, last_search_info, historical_stats, weather_forecast,
          historical_weather, forecast_features, full_df, prepared_df, historical_len,
          i, predictions, returned, calls, results_df, fetch_log, model, first_run,
          cd_in, cd_out, wx_in, wx_out, user_type_selected, user_type>>

(***************************************************************************)
(* Bounds of the model                                                     *)
(***************************************************************************)
MaxF == 8          \* longest forecast window in direct calls
MaxH == 1          \* longest historical window in direct calls
MaxCsvRows == 12   \* longest demand series read on its own
MaxPrecip == 20    \* largest precipitation (mm) tried on the narrative function
Today == 58        \* the day the pipeline runs (2024-02-28)

NaN == 0 - 1000000000

\* Python's None for a value that is otherwise a table or a list, and the
\* same value when present.
None == [none |-> TRUE, rows |-> <<>>]
Some(rows) == [none |-> FALSE, rows |-> rows]

(***************************************************************************)
(* Session state: the role identifiers (written without their emoji) and   *)
(* the values the module-level initialisation stores                       *)
(***************************************************************************)
ROLE_RESTAURANT == "Restaurant"
ROLE_PLATFORM == "Delivery Platform"
ROLE_DRIVER == "Delivery Driver"
role_options == {ROLE_RESTAURANT, ROLE_PLATFORM, ROLE_DRIVER}
\* Python's None as the value of user_type.
NoRole == "None"
SessionAtStart == user_type_selected = FALSE /\ user_type = NoRole

(***************************************************************************)
(* IEEE comparisons: false as soon as one side is NaN                      *)
(***************************************************************************)
isnan(x) == x = NaN
Ge(a, b) == ~isnan(a) /\ ~isnan(b) /\ a >= b
Le(a, b) == ~isnan(a) /\ ~isnan(b) /\ a <= b
Gt(a, b) == ~isnan(a) /\ ~isnan(b) /\ a > b
Lt(a, b) == ~isnan(a) /\ ~isnan(b) /\ a < b

RECURSIVE SumSeq(_)
SumSeq(s) == IF s = <<>> THEN 0 ELSE Head(s) + SumSeq(Tail(s))

(***************************************************************************)
(* SWISS_CITIES, in dictionary order, with their populations               *)
(***************************************************************************)
SWISS_CITIES ==
    << [name |-> "Zurich",     pop |-> 436551],
       [name |-> "Geneva",     pop |-> 209061],
       [name |-> "Basel",      pop |-> 177571],
       [name |-> "Lausanne",   pop |-> 144873],
       [name |-> "Bern",       pop |-> 137995],
       [name |-> "Winterthur", pop |-> 120376],
       [name |-> "Lucerne",    pop |-> 86234],
       [name |-> "St. Gallen", pop |-> 78863],
       [name |-> "Lugano",     pop |-> 63629],
       [name |-> "Biel",       pop |-> 56896] >>

total_pop == SumSeq([k \in 1..Len(SWISS_CITIES) |-> SWISS_CITIES[k].pop])

\* One unit of a weather quantity: value v (degrees, mm) is held as v * Scale.
Scale == 2 * total_pop
Real(v) == v * Scale

\* city_weights[city] * reading, for an integer reading: reading * pop / total_pop.
Weighted(reading, c) == reading * 2 * SWISS_CITIES[c].pop

(***************************************************************************)
(* The external weather source.  Reading(c, d) is what the API reports for *)
(* city c on day d: a temperature pair and a precipitation, integers.      *)
(***************************************************************************)
ReadingMax(c, d) == 4 + ((d + c) % 5) * 5
ReadingMin(c, d) == ((d + c) % 5) * 5 - 2
ReadingPrecip(c, d) == IF (d + c) % 3 = 0 THEN 12 ELSE IF (d + c) % 3 = 1 THEN 0 ELSE 3

\* How a city's request ends: "fail" (the request or the JSON fails before any
\* row is appended), "full" (every date appended), "partial" (a missing value
\* part-way raises after the rows of the earlier dates were appended).
CityOutcome == {"fail", "full", "partial"}

\* The outcome families tried: all answer, none answers, only Zurich answers,
\* all answer but Geneva breaks part-way.
FetchScenarios ==
    { [c \in 1..Len(SWISS_CITIES) |-> "full"],
      [c \in 1..Len(SWISS_CITIES) |-> "fail"],
      [c \in 1..Len(SWISS_CITIES) |-> IF c = 1 THEN "full" ELSE "fail"],
      [c \in 1..Len(SWISS_CITIES) |-> IF c = 2 THEN "partial" ELSE "full"] }

\* Variant: a city's rows are added only when its whole date list was read.
CityRows_all_or_nothing(c, outcome, first, last) ==
    LET n == IF outcome = "full" THEN last - first + 1 ELSE 0
    IN [k \in 1..n |->
          [Day |-> first + k - 1, City |-> c,
           Temp_Max |-> ReadingMax(c, first + k - 1),
           Temp_Min |-> ReadingMin(c, first + k - 1),
           Precipitation |-> ReadingPrecip(c, first + k - 1)]]

\* The rows one city appends to weather_data for the dates first..last.
CityRows(c, outcome, first, last) ==
    LET n == IF outcome = "full" THEN last - first + 1
             ELSE IF outcome = "partial" THEN (last - first + 1) \div 2
             ELSE 0
    IN [k \in 1..n |->
          [Day |-> first + k - 1, City |-> c,
           Temp_Max |-> ReadingMax(c, first + k - 1),
           Temp_Min |-> ReadingMin(c, first + k - 1),
           Precipitation |-> ReadingPrecip(c, first + k - 1)]]

RECURSIVE CollectRows(_, _, _, _)
CollectRows(c, scenario, first, last) ==
    IF c > Len(SWISS_CITIES) THEN <<>>
    ELSE CityRows(c, scenario[c], first, last) \o CollectRows(c + 1, scenario, first, last)

\* Variant: each day's sums are divided by the weights of the cities that
\* reported that day (to the whole degree or millimetre).
RECURSIVE GroupByDay_renormalized(_, _, _)
GroupByDay_renormalized(weather_data, d, last) ==
    IF d > last THEN <<>>
    ELSE LET grp == SelectSeq(weather_data, LAMBDA r : r.Day = d)
             used == SumSeq([k \in 1..Len(grp) |-> Weighted(1, grp[k].City)])
             row == [Day |-> d,
                     Temp_Max |-> (SumSeq([k \in 1..Len(grp) |-> Weighted(grp[k].Temp_Max, grp[k].City)]) \div used) * Scale,
                     Temp_Min |-> (SumSeq([k \in 1..Len(grp) |-> Weighted(grp[k].Temp_Min, grp[k].City)]) \div used) * Scale,
                     Precipitation |-> (SumSeq([k \in 1..Len(grp) |-> Weighted(grp[k].Precipitation, grp[k].City)]) \div used) * Scale]
         IN (IF grp = <<>> THEN <<>> ELSE <<row>>) \o GroupByDay_renormalized(weather_data, d + 1, last)

\* weather_df.groupby('Day').apply(weighted sums).reset_index(): one row per
\* date present, ascending by date.
RECURSIVE GroupByDay(_, _, _)
GroupByDay(weather_data, d, last) ==
    IF d > last THEN <<>>
    ELSE LET grp == SelectSeq(weather_data, LAMBDA r : r.Day = d)
             row == [Day |-> d,
                     Temp_Max |-> SumSeq([k \in 1..Len(grp) |-> Weighted(grp[k].Temp_Max, grp[k].City)]),
                     Temp_Min |-> SumSeq([k \in 1..Len(grp) |-> Weighted(grp[k].Temp_Min, grp[k].City)]),
                     Precipitation |-> SumSeq([k \in 1..Len(grp) |-> Weighted(grp[k].Precipitation, grp[k].City)])]
         IN (IF grp = <<>> THEN <<>> ELSE <<row>>) \o GroupByDay(weather_data, d + 1, last)

\* Variant: without any row the fetch returns an empty series.
FetchWeather_empty_series(scenario, first, last) ==
    Some(GroupByDay(CollectRows(1, scenario, first, last), first, last))

\* The body shared by fetch_weather_forecast and fetch_historical_weather.
FetchWeather(scenario, first, last) ==
    LET weather_data == CollectRows(1, scenario, first, last)
    IN IF weather_data = <<>> THEN None ELSE Some(GroupByDay(weather_data, first, last))

fetch_weather_forecast(scenario, now, days) == FetchWeather(scenario, now, now + days - 1)

fetch_historical_weather(scenario, now, days) == FetchWeather(scenario, (now - 5) - days, now - 5)

(***************************************************************************)
(* The demand source (the CSV of realized daily searches)                  *)
(***************************************************************************)
\* The realized demand of day d, as the source records it.
RealizedDemand(d) == 1000 + 10 * d

\* A gap-free daily series of n rows ending on day last.
DemandSeries(last, n) ==
    [k \in 1..n |-> [Day |-> last - n + k, estimated_daily_searches |-> RealizedDemand(last - n + k)]]

\* Variant: the sort puts the newest day first.
RECURSIVE InsertByDay_newest_first(_, _)
InsertByDay_newest_first(sorted, r) ==
    IF sorted = <<>> THEN <<r>>
    ELSE IF sorted[Len(sorted)].Day >= r.Day THEN Append(sorted, r)
    ELSE Append(InsertByDay_newest_first(SubSeq(sorted, 1, Len(sorted) - 1), r), sorted[Len(sorted)])

\* df.sort_values('Day').reset_index(drop=True)
RECURSIVE InsertByDay(_, _)
InsertByDay(sorted, r) ==
    IF sorted = <<>> THEN <<r>>
    ELSE IF sorted[Len(sorted)].Day <= r.Day THEN Append(sorted, r)
    ELSE Append(InsertByDay(SubSeq(sorted, 1, Len(sorted) - 1), r), sorted[Len(sorted)])

RECURSIVE sort_values_Day(_)
sort_values_Day(df) ==
    IF df = <<>> THEN <<>>
    ELSE InsertByDay(sort_values_Day(SubSeq(df, 1, Len(df) - 1)), df[Len(df)])

NoDate == 0 - 1

\* Variant: the second seed is taken one row further back.
get_last_known_search_value_eighth(source) ==
    IF source.none \/ source.rows = <<>>
    THEN [last_date |-> NoDate, last_search_value |-> 2000, last_7days_ago_value |-> 2000]
    ELSE LET df == sort_values_Day(source.rows)
             n == Len(df)
             last_row == df[n]
         IN [last_date |-> last_row.Day,
             last_search_value |-> last_row.estimated_daily_searches,
             last_7days_ago_value |-> IF n >= 8 THEN df[n - 7].estimated_daily_searches
                                      ELSE last_row.estimated_daily_searches]

\* Variant: the rows are taken in the order of the file, without the sort.
get_last_known_search_value_unsorted(source) ==
    IF source.none \/ source.rows = <<>>
    THEN [last_date |-> NoDate, last_search_value |-> 2000, last_7days_ago_value |-> 2000]
    ELSE LET df == source.rows
             n == Len(df)
             last_row == df[n]
         IN [last_date |-> last_row.Day,
             last_search_value |-> last_row.estimated_daily_searches,
             last_7days_ago_value |-> IF n >= 7 THEN df[n - 6].estimated_daily_searches
                                      ELSE last_row.estimated_daily_searches]

get_last_known_search_value(source) ==
    IF source.none \/ source.rows = <<>>
    THEN [last_date |-> NoDate, last_search_value |-> 2000, last_7days_ago_value |-> 2000]
    ELSE LET df == sort_values_Day(source.rows)
             n == Len(df)
             last_row == df[n]
         IN [last_date |-> last_row.Day,
             last_search_value |-> last_row.estimated_daily_searches,
             last_7days_ago_value |-> IF n >= 7 THEN df[n - 6].estimated_daily_searches
                                      ELSE last_row.estimated_daily_searches]

\* np.percentile(searches, q), linear interpolation between the two nearest
\* ranks (the fraction is cut to a whole search).
percentile(sorted, q) ==
    LET n == Len(sorted)
        pos == (n - 1) * q
        lo == pos \div 100 + 1
        hi == IF lo < n THEN lo + 1 ELSE lo
    IN sorted[lo] + ((sorted[hi] - sorted[lo]) * (pos % 100)) \div 100

RECURSIVE InsertNum(_, _)
InsertNum(sorted, x) ==
    IF sorted = <<>> THEN <<x>>
    ELSE IF sorted[Len(sorted)] <= x THEN Append(sorted, x)
    ELSE Append(InsertNum(SubSeq(sorted, 1, Len(sorted) - 1), x), sorted[Len(sorted)])

RECURSIVE SortNum(_)
SortNum(s) == IF s = <<>> THEN <<>> ELSE InsertNum(SortNum(SubSeq(s, 1, Len(s) - 1)), s[Len(s)])

load_historical_data(source) ==
    IF source.none \/ source.rows = <<>>
    THEN [p25 |-> 1500, p75 |-> 2500, p90 |-> 3000]
    ELSE LET searches == SortNum([k \in 1..Len(source.rows) |-> source.rows[k].estimated_daily_searches])
         IN [p25 |-> percentile(searches, 25),
             p75 |-> percentile(searches, 75),
             p90 |-> percentile(searches, 90)]

(***************************************************************************)
(* Calendar of 2024 and the cyclical tables (values times 1000)            *)
(***************************************************************************)
MonthEnds == <<31, 60, 91, 121, 152, 182, 213, 244, 274, 305, 335, 366>>

month(d) == CHOOSE m \in 1..12 : d < MonthEnds[m] /\ (m = 1 \/ d >= MonthEnds[m - 1])
weekday(d) == d % 7

Sin7 == <<0, 782, 975, 434, -434, -975, -782>>
Cos7 == <<1000, 623, -223, -901, -901, -223, 623>>
Sin12 == <<500, 866, 1000, 866, 500, 0, -500, -866, -1000, -866, -500, 0>>
Cos12 == <<866, 500, 0, -500, -866, -1000, -866, -500, 0, 500, 866, 1000>>

\* Variant: the weekend starts after Saturday (dayofweek > 5).
create_temporal_features_sunday_only(df) ==
    [k \in 1..Len(df) |->
        LET r == df[k]
            dow == weekday(r.Day)
            mon == month(r.Day)
        IN [dayofweek |-> dow,
            month_num |-> mon,
            is_weekend |-> IF dow > 5 THEN 1 ELSE 0,
            is_holiday |-> 0,
            dayofweek_sin |-> Sin7[dow + 1],
            dayofweek_cos |-> Cos7[dow + 1],
            month_sin |-> Sin12[mon],
            month_cos |-> Cos12[mon]] @@ r]

\* A column assignment df[name] = ... adds the field to every row (r @@ row
\* keeps the fields of r and adds those of row that r lacks).
create_temporal_features(df) ==
    [k \in 1..Len(df) |->
        LET r == df[k]
            dow == weekday(r.Day)
            mon == month(r.Day)
        IN [dayofweek |-> dow,
            month_num |-> mon,
            is_weekend |-> IF dow >= 5 THEN 1 ELSE 0,
            is_holiday |-> 0,
            dayofweek_sin |-> Sin7[dow + 1],
            dayofweek_cos |-> Cos7[dow + 1],
            month_sin |-> Sin12[mon],
            month_cos |-> Cos12[mon]] @@ r]

\* Temp_Max ** 2, in units of (8192/Scale)^2: the square is taken at reduced
\* precision because the exact one exceeds the integer range.
Pow2(v) == (v \div 8192) * (v \div 8192)

create_weather_features(df) ==
    [k \in 1..Len(df) |->
        LET r == df[k]
            temp_comfort == (r.Temp_Max + r.Temp_Min) \div 2
        IN [temp_range |-> r.Temp_Max - r.Temp_Min,
            temp_comfort |-> temp_comfort,
            precip_binary |-> IF Gt(r.Precipitation, 0) THEN 1 ELSE 0,
            precip_heavy |-> IF Gt(r.Precipitation, Real(10)) THEN 1 ELSE 0,
            Temp_Max_squared |-> Pow2(r.Temp_Max),
            Temp_Max_weekend |-> r.Temp_Max * r.is_weekend,
            Precipitation_weekend |-> r.Precipitation * r.is_weekend,
            temp_comfort_weekend |-> temp_comfort * r.is_weekend] @@ r]

\* df[col].shift(n): the value n rows earlier, NaN for the first n rows
shift(df, col, n, k) == IF k - n >= 1 THEN df[k - n][col] ELSE NaN

\* df[col].rolling(window=7, min_periods=1).mean() (cut to a whole unit)
rolling_mean(df, col, k) ==
    LET first == IF k - 6 >= 1 THEN k - 6 ELSE 1
    IN SumSeq([j \in 1..(k - first + 1) |-> df[first + j - 1][col]]) \div (k - first + 1)

(***************************************************************************)
(* prepare_forecast_features                                               *)
(***************************************************************************)
FallbackRows == 14

with_searches_nan(df) == [k \in 1..Len(df) |-> [estimated_daily_searches |-> NaN] @@ df[k]]

\* Variant: the demand lags are shifted columns like the weather lags, with
\* the seeds used only where the shift leaves no value.
lag_and_rolling_features_shifted_demand(df, last_search_info_) ==
    [k \in 1..Len(df) |->
        [Temp_Max_lag1 |-> shift(df, "Temp_Max", 1, k),
         Temp_Min_lag1 |-> shift(df, "Temp_Min", 1, k),
         Precipitation_lag1 |-> shift(df, "Precipitation", 1, k),
         Temp_Max_lag7 |-> shift(df, "Temp_Max", 7, k),
         Temp_Min_lag7 |-> shift(df, "Temp_Min", 7, k),
         Precipitation_lag7 |-> shift(df, "Precipitation", 7, k),
         estimated_daily_searches_lag1 |-> IF k > 1 THEN df[k - 1].estimated_daily_searches
                                           ELSE last_search_info_.last_search_value,
         estimated_daily_searches_lag7 |-> IF k > 7 THEN df[k - 7].estimated_daily_searches
                                           ELSE last_search_info_.last_7days_ago_value,
         Temp_Max_7d |-> rolling_mean(df, "Temp_Max", k),
         Precipitation_7d |-> rolling_mean(df, "Precipitation", k)] @@ df[k]]

\* The weather lag, demand lag and rolling columns, set on the sorted table.
lag_and_rolling_features(df, last_search_info_) ==
    [k \in 1..Len(df) |->
        [Temp_Max_lag1 |-> shift(df, "Temp_Max", 1, k),
         Temp_Min_lag1 |-> shift(df, "Temp_Min", 1, k),
         Precipitation_lag1 |-> shift(df, "Precipitation", 1, k),
         Temp_Max_lag7 |-> shift(df, "Temp_Max", 7, k),
         Temp_Min_lag7 |-> shift(df, "Temp_Min", 7, k),
         Precipitation_lag7 |-> shift(df, "Precipitation", 7, k),
         estimated_daily_searches_lag1 |-> last_search_info_.last_search_value,
         estimated_daily_searches_lag7 |-> last_search_info_.last_7days_ago_value,
         Temp_Max_7d |-> rolling_mean(df, "Temp_Max", k),
         Precipitation_7d |-> rolling_mean(df, "Precipitation", k)] @@ df[k]]

\* Variant: the substitute rows are copies of the last forecast day.
fallback_history_last_day(weather_forecast_) ==
    [k \in 1..FallbackRows |-> weather_forecast_[Len(weather_forecast_)]]
\* pd.concat([weather_forecast.iloc[0:1]] * 14): the substitute for the
\* historical window, copies of the first forecast day.
fallback_history(weather_forecast_) == [k \in 1..FallbackRows |-> weather_forecast_[1]]

\* weather_forecast: the forecast rows (a table, possibly empty);
\* historical_weather_: None or the historical rows.
\* Returns [forecast_features, full_df], both None on the hard failure.
prepare_forecast_features(weather_forecast_, historical_weather_, last_search_info_) ==
    IF historical_weather_.none /\ Len(weather_forecast_) = 0
    THEN [forecast_features |-> None, full_df |-> None]
    ELSE LET hist_df == IF ~historical_weather_.none
                        THEN with_searches_nan(historical_weather_.rows)
                        ELSE with_searches_nan(fallback_history(weather_forecast_))
             forecast_df == with_searches_nan(weather_forecast_)
             sorted == sort_values_Day(hist_df \o forecast_df)
             featured == create_weather_features(create_temporal_features(sorted))
             full == lag_and_rolling_features(featured, last_search_info_)
             forecast_start_idx == Len(hist_df)
         IN [forecast_features |-> Some(SubSeq(full, forecast_start_idx + 1, Len(full))),
             full_df |-> Some(full)]

(***************************************************************************)
(* make_predictions                                                        *)
(***************************************************************************)
feature_order ==
    << "is_weekend", "is_holiday", "dayofweek_sin", "dayofweek_cos",
       "month_sin", "month_cos",
       "Temp_Max", "Temp_Min", "Precipitation", "temp_range", "temp_comfort",
       "precip_binary", "precip_heavy",
       "Temp_Max_lag1", "Temp_Min_lag1", "Precipitation_lag1", "estimated_daily_searches_lag1",
       "estimated_daily_searches_lag7",
       "Temp_Max_lag7", "Temp_Min_lag7", "Precipitation_lag7",
       "Temp_Max_7d", "Precipitation_7d",
       "Temp_Max_squared",
       "Temp_Max_weekend", "Precipitation_weekend", "temp_comfort_weekend" >>

\* frame[col].ffill() at row k of frame: the last value at or before row k
\* that is not NaN, NaN when there is none.
RECURSIVE ffill(_, _, _)
ffill(frame, col, k) ==
    IF k < 1 THEN NaN
    ELSE IF ~isnan(frame[k][col]) THEN frame[k][col]
    ELSE ffill(frame, col, k - 1)

fillna(v, d) == IF isnan(v) THEN d ELSE v

\* Variant: the vector takes the columns in the order the table holds them
\* (the weather lags before the demand lags) instead of feature_order.
FeatureVector_table_order(row) ==
    LET order == [k \in 1..Len(feature_order) |->
                     IF k = 17 THEN feature_order[19]
                     ELSE IF k = 19 THEN feature_order[17]
                     ELSE feature_order[k]]
    IN [k \in 1..Len(order) |->
           [name |-> order[k], value |-> fillna(ffill(row, order[k], 1), 0)]]

\* X = row[feature_order].ffill().fillna(0), row being the one-row frame
\* full_df.iloc[idx:idx+1]; the categorical columns already hold integers.
FeatureVector(row) ==
    [k \in 1..Len(feature_order) |->
        [name |-> feature_order[k], value |-> fillna(ffill(row, feature_order[k], 1), 0)]]

\* Variant: the lag-1 write lands two rows ahead instead of one.
WriteBack_lag1_two_ahead(df, idx, pred) ==
    LET df1 == [df EXCEPT ![idx + 1].estimated_daily_searches = pred]
        df2 == IF idx + 2 < Len(df)
               THEN [df1 EXCEPT ![idx + 3].estimated_daily_searches_lag1 = pred]
               ELSE df1
    IN IF idx + 7 < Len(df)
       THEN [df2 EXCEPT ![idx + 8].estimated_daily_searches_lag7 = pred]
       ELSE df2

\* Variant: the lag-7 write lands six rows ahead instead of seven.
WriteBack_lag7_six_ahead(df, idx, pred) ==
    LET df1 == [df EXCEPT ![idx + 1].estimated_daily_searches = pred]
        df2 == IF idx + 1 < Len(df)
               THEN [df1 EXCEPT ![idx + 2].estimated_daily_searches_lag1 = pred]
               ELSE df1
    IN IF idx + 6 < Len(df)
       THEN [df2 EXCEPT ![idx + 7].estimated_daily_searches_lag7 = pred]
       ELSE df2

\* Variant: the lag-1 write lands on the previous row instead of the next.
WriteBack_lag1_previous_row(df, idx, pred) ==
    LET df1 == [df EXCEPT ![idx + 1].estimated_daily_searches = pred]
        df2 == IF idx - 1 >= 0
               THEN [df1 EXCEPT ![idx].estimated_daily_searches_lag1 = pred]
               ELSE df1
    IN IF idx + 7 < Len(df)
       THEN [df2 EXCEPT ![idx + 8].estimated_daily_searches_lag7 = pred]
       ELSE df2

\* Variant: the demand of the day is written on the next row.
WriteBack_demand_next_row(df, idx, pred) ==
    LET df1 == IF idx + 1 < Len(df)
               THEN [df EXCEPT ![idx + 2].estimated_daily_searches = pred,
                               ![idx + 2].estimated_daily_searches_lag1 = pred]
               ELSE df
    IN IF idx + 7 < Len(df)
       THEN [df1 EXCEPT ![idx + 8].estimated_daily_searches_lag7 = pred]
       ELSE df1

\* Variant: the rolling precipitation of the next row is written as well,
\* from the current row alone.
WriteBack_updates_rolling(df, idx, pred) ==
    LET df1 == [df EXCEPT ![idx + 1].estimated_daily_searches = pred]
        df2 == IF idx + 1 < Len(df)
               THEN [df1 EXCEPT ![idx + 2].estimated_daily_searches_lag1 = pred,
                                ![idx + 2].Precipitation_7d = df[idx + 1].Precipitation]
               ELSE df1
    IN IF idx + 7 < Len(df)
       THEN [df2 EXCEPT ![idx + 8].estimated_daily_searches_lag7 = pred]
       ELSE df2

\* The three writes that follow a prediction (idx is the 0-based row label).
WriteBack(df, idx, pred) ==
    LET df1 == [df EXCEPT ![idx + 1].estimated_daily_searches = pred]
        df2 == IF idx + 1 < Len(df)
               THEN [df1 EXCEPT ![idx + 2].estimated_daily_searches_lag1 = pred]
               ELSE df1
    IN IF idx + 7 < Len(df)
       THEN [df2 EXCEPT ![idx + 8].estimated_daily_searches_lag7 = pred]
       ELSE df2

\* Variant: the failure is caught, the historical mean stands in for the
\* prediction and the loop goes on.
predictor_failure_substitutes(df, idx, preds, n) ==
    [pc |-> "predict", full_df |-> WriteBack(df, idx, 2000),
     predictions |-> Append(preds, 2000), i |-> n + 1]

\* What a failure of model.predict on row idx leaves behind: no handler
\* surrounds the call, so the loop ends there, the table and the list stay as
\* they are, and the exception goes to the caller.
predictor_failure(df, idx, preds, n) ==
    [pc |-> "raised", full_df |-> df, predictions |-> preds, i |-> n]

\* What the injected predictor may return: in direct calls any of three
\* values, in a pipeline run (where the runs are many) one of two.
Preds == {50, 70, NaN}
PipelinePreds == {50, NaN}
PredictorOutputs(who) == IF who = "main" THEN PipelinePreds ELSE Preds

\* The value the predictor was handed for one field of the vector X.
Handed(X, field) == X[CHOOSE n \in 1..Len(X) : X[n].name = field].value

\* Deterministic predictors, each a function of the vector it is handed: a
\* constant, one that grows with the two demand lags, one that answers NaN
\* on weekend days.
StubPredictors == {"constant", "from_lags", "weekend_nan"}
StubPredict(stub, X) ==
    IF stub = "constant" THEN 50
    ELSE IF stub = "from_lags"
    THEN Handed(X, "estimated_daily_searches_lag1")
         + (Handed(X, "estimated_daily_searches_lag7") \div 2) + 1
    ELSE IF Handed(X, "is_weekend") = 1 THEN NaN
    ELSE Handed(X, "estimated_daily_searches_lag1") + 10

\* model.predict(X)[0]: the values the call may return.
Predict(injected, who, X) ==
    IF injected = "any" THEN PredictorOutputs(who) ELSE {StubPredict(injected, X)}

\* Variant: the list of an earlier call is kept (a list shared between calls).
fresh_predictions_kept(previous) == previous
\* predictions = [] at the start of make_predictions.
fresh_predictions(previous) == <<>>

(***************************************************************************)
(* categorize_demand (the tier it returns)                                 *)
(***************************************************************************)
\* Variant: the top tier starts strictly above p90.
categorize_demand_strict(searches, stats) ==
    IF Gt(searches, stats.p90) THEN "CRITICAL"
    ELSE IF Ge(searches, stats.p75) THEN "HIGH"
    ELSE IF Le(searches, stats.p25) THEN "LOW"
    ELSE "NORMAL"

\* Variant: the LOW test comes first.
categorize_demand_low_first(searches, stats) ==
    IF Le(searches, stats.p25) THEN "LOW"
    ELSE IF Ge(searches, stats.p90) THEN "CRITICAL"
    ELSE IF Ge(searches, stats.p75) THEN "HIGH"
    ELSE "NORMAL"

categorize_demand(searches, stats) ==
    IF Ge(searches, stats.p90) THEN "CRITICAL"
    ELSE IF Ge(searches, stats.p75) THEN "HIGH"
    ELSE IF Le(searches, stats.p25) THEN "LOW"
    ELSE "NORMAL"

(***************************************************************************)
(* build_weather_adjustment_paragraphs.  A row is a record with Temp_Max,  *)
(* Temp_Min, Precipitation and, when has_holiday, the column is_holiday.   *)
(* Each paragraph is named by its opening words.                           *)
(***************************************************************************)
\* Variant: the cold tests use avg_temp < 10 in place of avg_temp <= 10.
weather_branch_strict(precip, avg_temp) ==
    IF Ge(precip, Real(5)) /\ Lt(avg_temp, Real(10)) THEN "cold and rainy"
    ELSE IF Ge(precip, Real(5)) /\ Gt(avg_temp, Real(10)) THEN "rainy but relatively mild"
    ELSE IF Lt(precip, Real(1)) /\ Ge(avg_temp, Real(25)) THEN "very warm, dry"
    ELSE IF Lt(precip, Real(1)) /\ Lt(Real(10), avg_temp) /\ Lt(avg_temp, Real(25)) THEN "mild and dry"
    ELSE IF Lt(avg_temp, Real(10)) /\ Lt(precip, Real(5)) THEN "cold"
    ELSE "neutral"

\* Variant: the mild-and-dry test accepts precipitation below 2 mm.
weather_branch_dry_below_two(precip, avg_temp) ==
    IF Ge(precip, Real(5)) /\ Le(avg_temp, Real(10)) THEN "cold and rainy"
    ELSE IF Ge(precip, Real(5)) /\ Gt(avg_temp, Real(10)) THEN "rainy but relatively mild"
    ELSE IF Lt(precip, Real(1)) /\ Ge(avg_temp, Real(25)) THEN "very warm, dry"
    ELSE IF Lt(precip, Real(2)) /\ Lt(Real(10), avg_temp) /\ Lt(avg_temp, Real(25)) THEN "mild and dry"
    ELSE IF Le(avg_temp, Real(10)) /\ Lt(precip, Real(5)) THEN "cold"
    ELSE "neutral"

weather_branch(precip, avg_temp) ==
    IF Ge(precip, Real(5)) /\ Le(avg_temp, Real(10)) THEN "cold and rainy"
    ELSE IF Ge(precip, Real(5)) /\ Gt(avg_temp, Real(10)) THEN "rainy but relatively mild"
    ELSE IF Lt(precip, Real(1)) /\ Ge(avg_temp, Real(25)) THEN "very warm, dry"
    ELSE IF Lt(precip, Real(1)) /\ Lt(Real(10), avg_temp) /\ Lt(avg_temp, Real(25)) THEN "mild and dry"
    ELSE IF Le(avg_temp, Real(10)) /\ Lt(precip, Real(5)) THEN "cold"
    ELSE "neutral"

\* Variant: the holiday sentence is added to both texts.
build_weather_adjustment_paragraphs_holiday_in_both(row) ==
    LET avg_temp == (row.Temp_Max + row.Temp_Min) \div 2
        is_holiday == IF row.has_holiday THEN row.is_holiday # 0 ELSE FALSE
        branch == weather_branch(row.Precipitation, avg_temp)
        platform_parts == <<[audience |-> "platform", about |-> branch]>>
                          \o (IF is_holiday THEN <<[audience |-> "platform", about |-> "public holiday"]>>
                              ELSE <<>>)
        restaurant_parts == <<[audience |-> "restaurant", about |-> branch]>>
                            \o (IF is_holiday
                                THEN <<[audience |-> "restaurant", about |-> "public holiday"]>>
                                ELSE <<>>)
    IN [platform_text |-> platform_parts, restaurant_text |-> restaurant_parts]

\* Variant: the holiday sentence is added inside the weather branches and the
\* neutral branch has none.
build_weather_adjustment_paragraphs_holiday_in_branches(row) ==
    LET avg_temp == (row.Temp_Max + row.Temp_Min) \div 2
        is_holiday == IF row.has_holiday THEN row.is_holiday # 0 ELSE FALSE
        branch == weather_branch(row.Precipitation, avg_temp)
        platform_parts == <<[audience |-> "platform", about |-> branch]>>
                          \o (IF is_holiday /\ branch # "neutral"
                              THEN <<[audience |-> "platform", about |-> "public holiday"]>>
                              ELSE <<>>)
        restaurant_parts == <<[audience |-> "restaurant", about |-> branch]>>
    IN [platform_text |-> platform_parts, restaurant_text |-> restaurant_parts]

build_weather_adjustment_paragraphs(row) ==
    LET avg_temp == (row.Temp_Max + row.Temp_Min) \div 2
        is_holiday == IF row.has_holiday THEN row.is_holiday # 0 ELSE FALSE
        branch == weather_branch(row.Precipitation, avg_temp)
        platform_parts == <<[audience |-> "platform", about |-> branch]>>
                          \o (IF is_holiday THEN <<[audience |-> "platform", about |-> "public holiday"]>>
                              ELSE <<>>)
        restaurant_parts == <<[audience |-> "restaurant", about |-> branch]>>
    IN [platform_text |-> platform_parts, restaurant_text |-> restaurant_parts]

(***************************************************************************)
(* State machine.  A run of main() goes through the pipeline calls in      *)
(* order; the loop of make_predictions is one step per forecast day.       *)
(***************************************************************************)
DefaultHistoricalLen == 14
ForecastDays == 7
HistoricalDays == 14

NoInfo == [last_date |-> NoDate, last_search_value |-> NaN, last_7days_ago_value |-> NaN]
NoStats == [p25 |-> NaN, p75 |-> NaN, p90 |-> NaN]
NoRow == [Temp_Max |-> 0, Temp_Min |-> 0, Precipitation |-> 0, has_holiday |-> FALSE, is_holiday |-> 0]
NoFetch == [kind |-> "none", first |-> 0, last |-> 0 - 1, outcome |-> <<>>]
NoTexts == [platform_text |-> <<>>, restaurant_text |-> <<>>]

\* The parts of the state that belong to the pure-function checks.
IdlePure == cd_in = [searches |-> NaN, stats |-> NoStats] /\ cd_out = "" /\ wx_in = NoRow /\ wx_out = NoTexts

\* Nothing of the pipeline has run.
IdleTables ==
    /\ last_search_info = NoInfo /\ historical_stats = NoStats
    /\ weather_forecast = None /\ historical_weather = None
    /\ forecast_features = None /\ full_df = None /\ prepared_df = None
    /\ historical_len = 0 /\ i = 0 /\ predictions = <<>> /\ returned = None
    /\ calls = <<>> /\ results_df = None
    /\ fetch_log = NoFetch /\ first_run = None

IdlePipeline == csv = None /\ model = "any" /\ IdleTables

\* The demand sources tried: ten days up to yesterday, three days up to three
\* days ago.
CsvSources(now) == {Some(DemandSeries(now - 1, 10)), Some(DemandSeries(now - 3, 3))}

Init ==
    /\ user_type_selected = TRUE /\ user_type = ROLE_RESTAURANT
    /\ pc = "load_model" /\ caller = "main" /\ today = Today
    /\ csv \in CsvSources(Today)
    /\ last_search_info = NoInfo /\ historical_stats = NoStats
    /\ weather_forecast = None /\ historical_weather = None
    /\ forecast_features = None /\ full_df = None /\ prepared_df = None
    /\ historical_len = 0 /\ i = 0 /\ predictions = <<>> /\ returned = None
    /\ calls = <<>> /\ results_df = None
    /\ fetch_log = NoFetch /\ model = "any" /\ first_run = None
    /\ IdlePure

\* Where main goes after each check that ends in st.stop().
after_model_check(exists) == IF exists THEN "get_last" ELSE "stopped"
\* Variant: the run goes on after a forecast fetch that returned None.
after_forecast_fetch_goes_on(forecast) == "fetch_hist"
after_forecast_fetch(forecast) == IF forecast.none THEN "stopped" ELSE "fetch_hist"
after_prepare(features) == IF features.none THEN "stopped" ELSE "call_mp"

\* main, the model file: st.stop() when it is missing.
MainLoadModel ==
    /\ pc = "load_model"
    /\ \E exists \in BOOLEAN : pc' = after_model_check(exists)
    /\ UNCHANGED <<user_type_selected, user_type, caller, today, fetch_log, model, first_run,
                   csv, last_search_info, historical_stats, weather_forecast,
                   historical_weather, forecast_features, full_df, prepared_df, historical_len,
                   i, predictions, returned, calls, results_df, cd_in, cd_out, wx_in, wx_out>>

\* main: last_search_info = get_last_known_search_value(); the read may fail.
MainGetLastSearch ==
    /\ pc = "get_last"
    /\ \E readable \in BOOLEAN :
          last_search_info' = get_last_known_search_value(IF readable THEN csv ELSE None)
    /\ pc' = "load_stats"
    /\ UNCHANGED <<user_type_selected, user_type, caller, today, fetch_log, model, first_run,
                   csv, historical_stats, weather_forecast,
                   historical_weather, forecast_features, full_df, prepared_df, historical_len,
                   i, predictions, returned, calls, results_df, cd_in, cd_out, wx_in, wx_out>>

\* main: historical_stats = load_historical_data(); the read may fail.
MainLoadStats ==
    /\ pc = "load_stats"
    /\ \E readable \in BOOLEAN :
          historical_stats' = load_historical_data(IF readable THEN csv ELSE None)
    /\ pc' = "fetch_forecast"
    /\ UNCHANGED <<user_type_selected, user_type, caller, today, fetch_log, model, first_run,
                   csv, last_search_info, weather_forecast,
                   historical_weather, forecast_features, full_df, prepared_df, historical_len,
                   i, predictions, returned, calls, results_df, cd_in, cd_out, wx_in, wx_out>>

\* main: weather_forecast = fetch_weather_forecast(days=7); st.stop() on None.
MainFetchForecast ==
    /\ pc = "fetch_forecast"
    /\ \E scenario \in FetchScenarios :
          /\ weather_forecast' = fetch_weather_forecast(scenario, today, ForecastDays)
          /\ fetch_log' = [kind |-> "forecast", first |-> today, last |-> today + ForecastDays - 1,
                           outcome |-> scenario]
          /\ pc' = after_forecast_fetch(weather_forecast')
    /\ UNCHANGED <<user_type_selected, user_type, caller, today, model, first_run, csv, last_search_info, historical_stats,
                   historical_weather, forecast_features, full_df, prepared_df, historical_len,
                   i, predictions, returned, calls, results_df, cd_in, cd_out, wx_in, wx_out>>

\* main: historical_weather = fetch_historical_weather(days=14)
MainFetchHistorical ==
    /\ pc = "fetch_hist"
    /\ \E scenario \in FetchScenarios :
          /\ historical_weather' = fetch_historical_weather(scenario, today, HistoricalDays)
          /\ fetch_log' = [kind |-> "historical", first |-> (today - 5) - HistoricalDays,
                           last |-> today - 5, outcome |-> scenario]
    /\ pc' = "prepare"
    /\ UNCHANGED <<user_type_selected, user_type, caller, today, model, first_run, csv, last_search_info, historical_stats, weather_forecast,
                   forecast_features, full_df, prepared_df, historical_len,
                   i, predictions, returned, calls, results_df, cd_in, cd_out, wx_in, wx_out>>

\* main: prepare_forecast_features(...); st.stop() when it returns None.
MainPrepare ==
    /\ pc = "prepare"
    /\ LET r == prepare_forecast_features(weather_forecast.rows, historical_weather, last_search_info)
       IN /\ forecast_features' = r.forecast_features
          /\ full_df' = r.full_df
          /\ prepared_df' = r.full_df
          /\ pc' = after_prepare(r.forecast_features)
    /\ UNCHANGED <<user_type_selected, user_type, caller, today, fetch_log, model, first_run,
                   csv, last_search_info, historical_stats, weather_forecast,
                   historical_weather, historical_len,
                   i, predictions, returned, calls, results_df, cd_in, cd_out, wx_in, wx_out>>

\* main: historical_len, then the call of make_predictions.
MainCallMakePredictions ==
    /\ pc = "call_mp" /\ caller = "main"
    /\ historical_len' = IF ~historical_weather.none THEN Len(historical_weather.rows)
                         ELSE DefaultHistoricalLen
    /\ i' = 0 /\ predictions' = fresh_predictions(predictions) /\ calls' = <<>>
    /\ pc' = "predict"
    /\ UNCHANGED <<user_type_selected, user_type, caller, today, fetch_log, model, first_run,
                   csv, last_search_info, historical_stats, weather_forecast,
                   historical_weather, forecast_features, full_df, prepared_df,
                   returned, results_df, cd_in, cd_out, wx_in, wx_out>>

\* make_predictions, one iteration in which model.predict returns pred.
PredictStep ==
    /\ pc = "predict" /\ i < Len(forecast_features.rows)
    /\ LET idx == historical_len + i
           row == SubSeq(full_df.rows, idx + 1, idx + 1)
           X == FeatureVector(row)
       IN \E pred \in Predict(model, caller, X) :
             /\ calls' = Append(calls, [idx |-> idx, X |-> X, raised |-> FALSE])
             /\ predictions' = Append(predictions, pred)
             /\ full_df' = Some(WriteBack(full_df.rows, idx, pred))
    /\ i' = i + 1
    /\ UNCHANGED <<user_type_selected, user_type, pc, caller, today, fetch_log, model, first_run,
                   csv, last_search_info, historical_stats, weather_forecast,
                   historical_weather, forecast_features, prepared_df, historical_len,
                   returned, results_df, cd_in, cd_out, wx_in, wx_out>>

\* make_predictions, one iteration in which model.predict raises: nothing
\* catches it, in make_predictions or in main.
PredictRaises ==
    /\ pc = "predict" /\ i < Len(forecast_features.rows)
    /\ LET idx == historical_len + i
           row == SubSeq(full_df.rows, idx + 1, idx + 1)
           after == predictor_failure(full_df.rows, idx, predictions, i)
       IN /\ calls' = Append(calls, [idx |-> idx, X |-> FeatureVector(row), raised |-> TRUE])
          /\ pc' = after.pc
          /\ full_df' = Some(after.full_df)
          /\ predictions' = after.predictions
          /\ i' = after.i
    /\ UNCHANGED <<user_type_selected, user_type, caller, today, fetch_log, model, first_run,
                   csv, last_search_info, historical_stats, weather_forecast,
                   historical_weather, forecast_features, prepared_df, historical_len,
                   returned, results_df, cd_in, cd_out, wx_in, wx_out>>

\* make_predictions: the loop is over, return predictions.
PredictReturn ==
    /\ pc = "predict" /\ i = Len(forecast_features.rows)
    /\ returned' = Some(predictions)
    /\ pc' = "returned"
    /\ UNCHANGED <<user_type_selected, user_type, caller, today, fetch_log, model, first_run,
                   csv, last_search_info, historical_stats, weather_forecast,
                   historical_weather, forecast_features, full_df, prepared_df, historical_len,
                   i, predictions, calls, results_df, cd_in, cd_out, wx_in, wx_out>>

\* Variant: the list of predictions is laid against the rows last to first.
ResultsTable_reversed(features, preds, stats) ==
    [k \in 1..Len(features) |->
        [Day |-> features[k].Day,
         Temp_Max |-> features[k].Temp_Max,
         Temp_Min |-> features[k].Temp_Min,
         Precipitation |-> features[k].Precipitation,
         Predicted_Searches |-> preds[Len(features) + 1 - k],
         Is_Weekend |-> weekday(features[k].Day) >= 5,
         Demand_Category |-> categorize_demand(preds[Len(features) + 1 - k], stats)]]

\* main: the results table, one row per row of forecast_features.
ResultsTable(features, preds, stats) ==
    [k \in 1..Len(features) |->
        [Day |-> features[k].Day,
         Temp_Max |-> features[k].Temp_Max,
         Temp_Min |-> features[k].Temp_Min,
         Precipitation |-> features[k].Precipitation,
         Predicted_Searches |-> preds[k],
         Is_Weekend |-> weekday(features[k].Day) >= 5,
         Demand_Category |-> categorize_demand(preds[k], stats)]]

MainResults ==
    /\ pc = "returned" /\ caller = "main"
    /\ results_df' = Some(ResultsTable(forecast_features.rows, returned.rows, historical_stats))
    /\ pc' = "rendered"
    /\ UNCHANGED <<user_type_selected, user_type, caller, today, fetch_log, model, first_run,
                   csv, last_search_info, historical_stats, weather_forecast,
                   historical_weather, forecast_features, full_df, prepared_df, historical_len,
                   i, predictions, returned, calls, cd_in, cd_out, wx_in, wx_out>>

Next ==
    \/ MainLoadModel
    \/ MainGetLastSearch
    \/ MainLoadStats
    \/ MainFetchForecast
    \/ MainFetchHistorical
    \/ MainPrepare
    \/ MainCallMakePredictions
    \/ PredictStep
    \/ PredictRaises
    \/ PredictReturn
    \/ MainResults

Spec == Init /\ [][Next]_vars

(***************************************************************************)
(* Direct calls: prepare_forecast_features on a historical window of H     *)
(* days immediately followed by a forecast window of F days, then          *)
(* make_predictions with historical_len = H.                               *)
(***************************************************************************)
UnitSeeds == [last_date |-> NoDate, last_search_value |-> 100, last_7days_ago_value |-> 90]

AllAnswer == [c \in 1..Len(SWISS_CITIES) |-> "full"]

InitUnit ==
    /\ SessionAtStart
    /\ pc = "unit_prepare" /\ caller = "unit" /\ today = Today
    /\ IdlePipeline
    /\ IdlePure

\* The historical windows handed over: H days up to yesterday, or, with an
\* empty forecast, None.
UnitHistory(now, F) ==
    {IF H = 0 THEN Some(<<>>) ELSE FetchWeather(AllAnswer, now - H, now - 1) : H \in 0..MaxH}
    \cup (IF F = 0 THEN {None} ELSE {})

UnitPrepare ==
    /\ pc = "unit_prepare"
    /\ \E F \in 0..MaxF :
       \E history \in UnitHistory(today, F) :
          /\ weather_forecast' = IF F = 0 THEN Some(<<>>)
                                 ELSE FetchWeather(AllAnswer, today, today + F - 1)
          /\ historical_weather' = history
          /\ last_search_info' = UnitSeeds
          /\ LET r == prepare_forecast_features(weather_forecast'.rows, historical_weather', UnitSeeds)
             IN /\ forecast_features' = r.forecast_features
                /\ full_df' = r.full_df
                /\ prepared_df' = r.full_df
                /\ pc' = IF r.forecast_features.none THEN "no_table" ELSE "call_mp"
    /\ UNCHANGED <<user_type_selected, user_type, caller, today, fetch_log, model, first_run,
                   csv, historical_stats, historical_len,
                   i, predictions, returned, calls, results_df, cd_in, cd_out, wx_in, wx_out>>

UnitCallMakePredictions ==
    /\ pc = "call_mp" /\ caller \in {"unit", "twice"}
    /\ historical_len' = Len(historical_weather.rows)
    /\ i' = 0 /\ predictions' = fresh_predictions(predictions) /\ calls' = <<>>
    /\ pc' = "predict"
    /\ UNCHANGED <<user_type_selected, user_type, caller, today, fetch_log, model, first_run,
                   csv, last_search_info, historical_stats, weather_forecast,
                   historical_weather, forecast_features, full_df, prepared_df,
                   returned, results_df, cd_in, cd_out, wx_in, wx_out>>

NextUnit ==
    \/ UnitPrepare
    \/ UnitCallMakePredictions
    \/ PredictStep
    \/ PredictRaises
    \/ PredictReturn

SpecUnit == InitUnit /\ [][NextUnit]_vars

(***************************************************************************)
(* make_predictions called twice with a deterministic predictor: the       *)
(* second call starts from a copy of the table the first call started      *)
(* from, with the same historical_len.                                     *)
(***************************************************************************)
InitTwice ==
    /\ SessionAtStart
    /\ pc = "unit_prepare" /\ caller = "twice" /\ today = Today
    /\ csv = None /\ model \in StubPredictors
    /\ IdleTables
    /\ IdlePure

TwiceCallAgain ==
    /\ pc = "returned" /\ caller = "twice" /\ first_run.none
    /\ first_run' = Some(<<[predictions |-> returned.rows, full_df |-> full_df.rows]>>)
    /\ full_df' = prepared_df
    /\ returned' = None
    /\ i' = 0 /\ predictions' = fresh_predictions(predictions) /\ calls' = <<>>
    /\ pc' = "predict"
    /\ UNCHANGED <<user_type_selected, user_type, caller, today, fetch_log, model, csv, last_search_info, historical_stats,
                   weather_forecast, historical_weather, forecast_features, prepared_df,
                   historical_len, results_df, cd_in, cd_out, wx_in, wx_out>>

NextTwice ==
    \/ UnitPrepare
    \/ UnitCallMakePredictions
    \/ PredictStep
    \/ PredictReturn
    \/ TwiceCallAgain

SpecTwice == InitTwice /\ [][NextTwice]_vars

(***************************************************************************)
(* fetch_weather_forecast and fetch_historical_weather on their own, over  *)
(* the ways the ten requests can end.                                      *)
(***************************************************************************)
\* The three largest cities end each in any way, the seven others alike.
FetchOutcomes ==
    {[c \in 1..Len(SWISS_CITIES) |-> IF c <= 3 THEN large[c] ELSE others] :
        large \in [1..3 -> CityOutcome], others \in CityOutcome}

InitFetch ==
    /\ SessionAtStart
    /\ pc = "fetch" /\ caller = "fetch" /\ today = Today
    /\ IdlePipeline
    /\ IdlePure

FetchForecast ==
    /\ pc = "fetch"
    /\ \E scenario \in FetchOutcomes :
          /\ weather_forecast' = fetch_weather_forecast(scenario, today, ForecastDays)
          /\ fetch_log' = [kind |-> "forecast", first |-> today, last |-> today + ForecastDays - 1,
                           outcome |-> scenario]
    /\ pc' = "fetched"
    /\ UNCHANGED <<user_type_selected, user_type, caller, today, model, first_run, csv, last_search_info, historical_stats,
                   historical_weather, forecast_features, full_df, prepared_df, historical_len,
                   i, predictions, returned, calls, results_df, cd_in, cd_out, wx_in, wx_out>>

FetchHistorical ==
    /\ pc = "fetch"
    /\ \E scenario \in FetchOutcomes :
          /\ historical_weather' = fetch_historical_weather(scenario, today, HistoricalDays)
          /\ fetch_log' = [kind |-> "historical", first |-> (today - 5) - HistoricalDays,
                           last |-> today - 5, outcome |-> scenario]
    /\ pc' = "fetched"
    /\ UNCHANGED <<user_type_selected, user_type, caller, today, model, first_run, csv, last_search_info, historical_stats,
                   weather_forecast, forecast_features, full_df, prepared_df, historical_len,
                   i, predictions, returned, calls, results_df, cd_in, cd_out, wx_in, wx_out>>

NextFetch ==
    \/ FetchForecast
    \/ FetchHistorical

SpecFetch == InitFetch /\ [][NextFetch]_vars

(***************************************************************************)
(* get_last_known_search_value on its own, over gap-free daily series of   *)
(* 0..MaxCsvRows rows, stored oldest first or newest first, and an         *)
(* unreadable source.                                                      *)
(***************************************************************************)
Reversed(df) == [k \in 1..Len(df) |-> df[Len(df) + 1 - k]]

SeedSources(now) ==
    {None}
    \cup {Some(DemandSeries(last, n)) : last \in (now - 4)..(now - 1), n \in 0..MaxCsvRows}
    \cup {Some(Reversed(DemandSeries(last, n))) : last \in (now - 4)..(now - 1), n \in 0..MaxCsvRows}

InitSeeds ==
    /\ SessionAtStart
    /\ pc = "seeds" /\ caller = "seeds" /\ today = Today
    /\ csv \in SeedSources(Today) /\ model = "any"
    /\ IdleTables
    /\ IdlePure

GetLastKnownSearchValue ==
    /\ pc = "seeds"
    /\ last_search_info' = get_last_known_search_value(csv)
    /\ pc' = "seeds_done"
    /\ UNCHANGED <<user_type_selected, user_type, caller, today, fetch_log, model, first_run, csv, historical_stats,
                   weather_forecast, historical_weather, forecast_features, full_df, prepared_df,
                   historical_len, i, predictions, returned, calls, results_df,
                   cd_in, cd_out, wx_in, wx_out>>

NextSeeds == GetLastKnownSearchValue

SpecSeeds == InitSeeds /\ [][NextSeeds]_vars

(***************************************************************************)
(* categorize_demand on its own                                            *)
(***************************************************************************)
DemandValues == {NaN, 0, 999, 1000, 1001, 2499, 2500, 2501, 3199, 3200, 3201}
ThresholdValues == {1000, 2500, 3200}

InitCategorize ==
    /\ SessionAtStart
    /\ pc = "categorize" /\ caller = "categorize" /\ today = Today
    /\ IdlePipeline
    /\ cd_in \in [searches : DemandValues,
                  stats : [p25 : ThresholdValues, p75 : ThresholdValues, p90 : ThresholdValues]]
    /\ cd_out = "" /\ wx_in = NoRow /\ wx_out = NoTexts

Categorize ==
    /\ pc = "categorize"
    /\ cd_out' = categorize_demand(cd_in.searches, cd_in.stats)
    /\ pc' = "categorized"
    /\ UNCHANGED <<user_type_selected, user_type, caller, today, fetch_log, model, first_run,
                   csv, last_search_info, historical_stats, weather_forecast,
                   historical_weather, forecast_features, full_df, prepared_df, historical_len,
                   i, predictions, returned, calls, results_df, cd_in, wx_in, wx_out>>

NextCategorize == Categorize

SpecCategorize == InitCategorize /\ [][NextCategorize]_vars

(***************************************************************************)
(* build_weather_adjustment_paragraphs on its own.  Temperatures are whole *)
(* degrees, so the midpoint moves in half degrees; precipitation moves in  *)
(* half millimetres.                                                       *)
(***************************************************************************)
Temperatures == {0 - 4, 3, 9, 10, 11, 24, 25, 26}
HalfMm == Scale \div 2
Precipitations == {k * HalfMm : k \in 0..(2 * MaxPrecip)}

InitWeatherText ==
    /\ SessionAtStart
    /\ pc = "weather_text" /\ caller = "weather_text" /\ today = Today
    /\ IdlePipeline
    /\ cd_in = [searches |-> NaN, stats |-> NoStats] /\ cd_out = ""
    /\ \E tmax \in Temperatures, tmin \in Temperatures, p \in Precipitations,
          has \in BOOLEAN, hol \in {0, 1} :
          /\ tmin <= tmax
          /\ (~has => hol = 0)
          /\ wx_in = [Temp_Max |-> Real(tmax), Temp_Min |-> Real(tmin), Precipitation |-> p,
                      has_holiday |-> has, is_holiday |-> hol]
    /\ wx_out = NoTexts

WeatherText ==
    /\ pc = "weather_text"
    /\ wx_out' = build_weather_adjustment_paragraphs(wx_in)
    /\ pc' = "weather_text_done"
    /\ UNCHANGED <<user_type_selected, user_type, caller, today, fetch_log, model, first_run,
                   csv, last_search_info, historical_stats, weather_forecast,
                   historical_weather, forecast_features, full_df, prepared_df, historical_len,
                   i, predictions, returned, calls, results_df, cd_in, cd_out, wx_in>>

NextWeatherText == WeatherText

SpecWeatherText == InitWeatherText /\ [][NextWeatherText]_vars

(***************************************************************************)
(* build_weather_adjustment_paragraphs called twice on the same weather,   *)
(* the second time with is_holiday the other way round.                    *)
(***************************************************************************)
\* The same row with the opposite holiday flag.
OtherHoliday(row) ==
    [row EXCEPT !.has_holiday = TRUE,
                !.is_holiday = IF row.has_holiday /\ row.is_holiday # 0 THEN 0 ELSE 1]

WeatherTextAgain ==
    /\ pc = "weather_text_done" /\ first_run.none
    /\ first_run' = Some(<<[row |-> wx_in, texts |-> wx_out]>>)
    /\ wx_in' = OtherHoliday(wx_in)
    /\ wx_out' = build_weather_adjustment_paragraphs(wx_in')
    /\ pc' = "weather_text_again"
    /\ UNCHANGED <<user_type_selected, user_type, caller, today, fetch_log, model, csv, last_search_info, historical_stats,
                   weather_forecast, historical_weather, forecast_features, full_df, prepared_df,
                   historical_len, i, predictions, returned, calls, results_df, cd_in, cd_out>>

NextWeatherTwice ==
    \/ WeatherText
    \/ WeatherTextAgain

SpecWeatherTwice == InitWeatherText /\ [][NextWeatherTwice]_vars

(***************************************************************************)
(* The session: role buttons of the landing page, the sidebar's role       *)
(* switch and its "Back to Welcome Screen" button, and main's gate.  Each  *)
(* click reruns the script: the handler stores into the session state and  *)
(* st.rerun() starts main again with nothing of the previous run left.     *)
(***************************************************************************)
\* What the handlers store.
role_button(role) == [user_type |-> role, user_type_selected |-> TRUE]
sidebar_radio(session, new_user_type) ==
    IF new_user_type # session.user_type
    THEN [session EXCEPT !.user_type = new_user_type]
    ELSE session
\* Variant: the button clears the flag and leaves the role.
back_to_welcome_keeps_role(session) == [session EXCEPT !.user_type_selected = FALSE]
back_to_welcome(session) == [user_type |-> NoRole, user_type_selected |-> FALSE]

Session == [user_type |-> user_type, user_type_selected |-> user_type_selected]

\* main's first lines: the landing page and return, or the dashboard.
gate(selected) == IF ~selected THEN "landing" ELSE "load_model"

\* The sidebar is on screen once main has passed the gate.
SidebarShown == caller = "main" /\ pc \notin {"main", "landing"}

\* The demand source of the session runs.
SessionCsv == Some(DemandSeries(Today - 1, 10))

InitSession ==
    /\ SessionAtStart
    /\ pc = "main" /\ caller = "main" /\ today = Today
    /\ csv = SessionCsv /\ model = "any"
    /\ IdleTables
    /\ IdlePure

MainGate ==
    /\ pc = "main" /\ caller = "main"
    /\ pc' = gate(user_type_selected)
    /\ UNCHANGED <<user_type_selected, user_type, caller, today, fetch_log, model, first_run,
                   csv, last_search_info, historical_stats, weather_forecast,
                   historical_weather, forecast_features, full_df, prepared_df, historical_len,
                   i, predictions, returned, calls, results_df, cd_in, cd_out, wx_in, wx_out>>

\* One of the three role buttons of the landing page.
ClickRoleButton ==
    /\ pc = "landing" /\ caller = "main"
    /\ \E role \in role_options :
          /\ user_type' = role_button(role).user_type
          /\ user_type_selected' = role_button(role).user_type_selected
    /\ pc' = "main"
    /\ last_search_info' = NoInfo /\ historical_stats' = NoStats
    /\ weather_forecast' = None /\ historical_weather' = None
    /\ forecast_features' = None /\ full_df' = None /\ prepared_df' = None
    /\ historical_len' = 0 /\ i' = 0 /\ predictions' = <<>> /\ returned' = None
    /\ calls' = <<>> /\ results_df' = None
    /\ fetch_log' = NoFetch /\ first_run' = None
    /\ UNCHANGED <<caller, today, model, csv, cd_in, cd_out, wx_in, wx_out>>

\* The sidebar's radio is moved to another role.
SidebarSwitch ==
    /\ SidebarShown
    /\ \E new_user_type \in role_options \ {user_type} :
          /\ user_type' = sidebar_radio(Session, new_user_type).user_type
          /\ user_type_selected' = sidebar_radio(Session, new_user_type).user_type_selected
    /\ pc' = "main"
    /\ last_search_info' = NoInfo /\ historical_stats' = NoStats
    /\ weather_forecast' = None /\ historical_weather' = None
    /\ forecast_features' = None /\ full_df' = None /\ prepared_df' = None
    /\ historical_len' = 0 /\ i' = 0 /\ predictions' = <<>> /\ returned' = None
    /\ calls' = <<>> /\ results_df' = None
    /\ fetch_log' = NoFetch /\ first_run' = None
    /\ UNCHANGED <<caller, today, model, csv, cd_in, cd_out, wx_in, wx_out>>

\* The sidebar's "Back to Welcome Screen" button.
BackToWelcome ==
    /\ SidebarShown
    /\ user_type' = back_to_welcome(Session).user_type
    /\ user_type_selected' = back_to_welcome(Session).user_type_selected
    /\ pc' = "main"
    /\ last_search_info' = NoInfo /\ historical_stats' = NoStats
    /\ weather_forecast' = None /\ historical_weather' = None
    /\ forecast_features' = None /\ full_df' = None /\ prepared_df' = None
    /\ historical_len' = 0 /\ i' = 0 /\ predictions' = <<>> /\ returned' = None
    /\ calls' = <<>> /\ results_df' = None
    /\ fetch_log' = NoFetch /\ first_run' = None
    /\ UNCHANGED <<caller, today, model, csv, cd_in, cd_out, wx_in, wx_out>>

NextSession ==
    \/ MainGate
    \/ ClickRoleButton
    \/ SidebarSwitch
    \/ BackToWelcome
    \/ Next

SpecSession == InitSession /\ [][NextSession]_vars

(***************************************************************************)
(* Properties                                                              *)
(***************************************************************************)
F_now == Len(forecast_features.rows)
Seed1 == last_search_info.last_search_value
Seed7 == last_search_info.last_7days_ago_value
\* Row of full_df that holds forecast day j (j counted from 0).
ForecastRow(j) == full_df.rows[historical_len + j + 1]
InLoop == pc \in {"predict", "raised", "returned", "rendered"}

\* C1 as stated: in every predictor call, demand_lag1 of the vector equals
\* the seed last_search_value on forecast day 0 and the prediction returned
\* for day i-1 on every later day i, whatever the predictor returned.
C1_AsStated ==
    \A k \in 1..Len(calls) :
        Handed(calls[k].X, "estimated_daily_searches_lag1")
            = IF k = 1 THEN Seed1 ELSE predictions[k - 1]

\* C1 amended: in every predictor call, demand_lag1 of the vector equals the
\* seed on forecast day 0 and, on day i >= 1, the prediction returned for
\* day i-1 when that prediction is a number, and 0 when it is NaN.
C1_Lag1Handed ==
    \A k \in 1..Len(calls) :
        Handed(calls[k].X, "estimated_daily_searches_lag1")
            = IF k = 1 THEN Seed1
              ELSE IF isnan(predictions[k - 1]) THEN 0 ELSE predictions[k - 1]

\* A call on forecast day 2 that was handed the number predicted for day 1,
\* after a day 0 that predicted something else.
C1_Witness ==
    /\ Len(calls) >= 3 /\ historical_len = 0
    /\ predictions[1] = 50 /\ predictions[2] = 70
    /\ Handed(calls[3].X, "estimated_daily_searches_lag1") = 70

\* C2: once make_predictions has returned, demand_lag7 of forecast row i is
\* the prediction of day i-7 when i >= 7 and the seed last_7days_ago_value
\* when i < 7; and in a window of at most 7 days no forecast row's demand_lag7
\* ever differs from the seed, in the table or in any vector handed over.
C2_Lag7AfterRun ==
    /\ pc = "returned" =>
          \A j \in 0..(F_now - 1) :
              ForecastRow(j).estimated_daily_searches_lag7
                  = IF j >= 7 THEN predictions[j - 6] ELSE Seed7
    /\ (InLoop /\ F_now <= 7) =>
          /\ \A j \in 0..(F_now - 1) : ForecastRow(j).estimated_daily_searches_lag7 = Seed7
          /\ \A k \in 1..Len(calls) : Handed(calls[k].X, "estimated_daily_searches_lag7") = Seed7

\* A finished run over 8 days whose last row took the prediction of day 0.
C2_Witness ==
    /\ pc = "returned" /\ F_now = 8
    /\ predictions[1] = 70
    /\ ForecastRow(7).estimated_daily_searches_lag7 = 70
    /\ ForecastRow(6).estimated_daily_searches_lag7 = Seed7

\* C4: when make_predictions returns, the list has one prediction per row of
\* forecast_features, the predictor was invoked exactly once per forecast
\* day, on the rows historical_len, historical_len + 1, ... in ascending
\* date order, and the demand field of forecast row i holds predictions[i].
C4_OnePredictionPerDay ==
    pc = "returned" =>
        /\ ~returned.none
        /\ returned.rows = predictions
        /\ Len(returned.rows) = F_now
        /\ Len(calls) = F_now
        /\ \A k \in 1..F_now :
              /\ calls[k].idx = historical_len + k - 1
              /\ full_df.rows[calls[k].idx + 1].Day = forecast_features.rows[k].Day
              /\ k > 1 => full_df.rows[calls[k].idx + 1].Day > full_df.rows[calls[k - 1].idx + 1].Day
              /\ ForecastRow(k - 1).estimated_daily_searches = returned.rows[k]

\* A returned run of 8 days with different predictions on three days.
C4_Witness ==
    /\ pc = "returned" /\ F_now = 8 /\ historical_len = 1
    /\ returned.rows[1] = 50 /\ returned.rows[2] = 70 /\ isnan(returned.rows[8])

\* C5: every vector handed to the predictor consists of the 27 fields of
\* feature_order, each once, in that order; so the order is the same in
\* every iteration and every run.
C5_FeatureOrder ==
    \A k \in 1..Len(calls) :
        /\ Len(calls[k].X) = 27
        /\ \A n \in 1..Len(calls[k].X) : calls[k].X[n].name = feature_order[n]
        /\ calls[k].X[1].name = "is_weekend"
        /\ calls[k].X[17].name = "estimated_daily_searches_lag1"
        /\ calls[k].X[18].name = "estimated_daily_searches_lag7"
        /\ calls[k].X[19].name = "Temp_Max_lag7"
        /\ calls[k].X[27].name = "temp_comfort_weekend"
        /\ Cardinality({calls[k].X[n].name : n \in 1..Len(calls[k].X)}) = 27

\* Three calls made, all on vectors of the same layout.
C5_Witness ==
    /\ Len(calls) >= 3
    /\ Handed(calls[3].X, "estimated_daily_searches_lag1") = 70

\* C6: once the predictor has failed on a day, no prediction list is
\* returned, that call is the last one, and the demand and demand-lag
\* fields of every forecast row hold only what the earlier, successful days
\* wrote: no value stands in for the failed day.
C6_FailurePropagates ==
    \A k \in 1..Len(calls) :
        calls[k].raised =>
            /\ pc = "raised"
            /\ returned.none
            /\ k = Len(calls)
            /\ Len(predictions) = k - 1
            /\ \A j \in 0..(F_now - 1) :
                  /\ ForecastRow(j).estimated_daily_searches
                        = IF j < k - 1 THEN predictions[j + 1] ELSE NaN
                  /\ ForecastRow(j).estimated_daily_searches_lag1
                        = IF j >= 1 /\ j <= k - 1 THEN predictions[j] ELSE Seed1
                  /\ ForecastRow(j).estimated_daily_searches_lag7
                        = IF j >= 7 /\ j - 7 < k - 1 THEN predictions[j - 6] ELSE Seed7

\* The predictor failed on day 2 of a longer window, after two good days.
C6_Witness ==
    /\ pc = "raised" /\ Len(calls) = 3 /\ calls[3].raised /\ F_now >= 5
    /\ predictions = <<50, 70>>

\* C8: at every point of a run of make_predictions, each row before the
\* forecast start index is as prepare_forecast_features produced it, with
\* the demand unset and both demand lags equal to the seeds.
C8_HistoryUntouched ==
    InLoop =>
        \A k \in 1..historical_len :
            /\ full_df.rows[k] = prepared_df.rows[k]
            /\ isnan(full_df.rows[k].estimated_daily_searches)
            /\ full_df.rows[k].estimated_daily_searches_lag1 = Seed1
            /\ full_df.rows[k].estimated_daily_searches_lag7 = Seed7

\* A finished run with a historical row in the table and numbers predicted.
C8_Witness ==
    /\ pc = "returned" /\ historical_len >= 1 /\ F_now >= 2
    /\ predictions[1] = 50 /\ predictions[2] = 70

\* The demand of calendar day d as the run knows it: the realized demand the
\* source records for d, else the prediction made for d, else nothing (NaN).
DemandOn(d) ==
    IF \E k \in 1..Len(csv.rows) : csv.rows[k].Day = d
    THEN csv.rows[CHOOSE k \in 1..Len(csv.rows) : csv.rows[k].Day = d].estimated_daily_searches
    ELSE IF \E j \in 0..(Len(predictions) - 1) : ForecastRow(j).Day = d
    THEN predictions[(CHOOSE j \in 0..(Len(predictions) - 1) : ForecastRow(j).Day = d) + 1]
    ELSE NaN

DayOfCall(k) == full_df.rows[calls[k].idx + 1].Day

\* C3 as stated: in every predictor call of a pipeline run, demand_lag1 and
\* demand_lag7 of the vector are the realized or predicted demand of the
\* dates 1 day and 7 days before the row's own date.
C3_AsStated ==
    \A k \in 1..Len(calls) :
        /\ Handed(calls[k].X, "estimated_daily_searches_lag1") = DemandOn(DayOfCall(k) - 1)
        /\ Handed(calls[k].X, "estimated_daily_searches_lag7") = DemandOn(DayOfCall(k) - 7)

\* C3 amended: in every predictor call of a pipeline run, demand_lag1 is, on
\* forecast day i >= 1, the demand predicted for the date one day earlier
\* (0 when that prediction is NaN) and on day 0 the seed last_search_value;
\* demand_lag7 is the seed last_7days_ago_value on every day i < 7 and the
\* demand predicted for the date 7 days earlier (0 for NaN) on a day i >= 7.
\* The seeds are the source's most recent value and its 7th most recent one,
\* whatever their dates: on day 0 they are the realized demand of the dates 1
\* and 7 days earlier exactly when the source was read and ends the day
\* before (with 7 rows or more for the second).
C3_LagsHanded ==
    \A k \in 1..Len(calls) :
        LET lag1 == Handed(calls[k].X, "estimated_daily_searches_lag1")
            lag7 == Handed(calls[k].X, "estimated_daily_searches_lag7")
            day == DayOfCall(k)
        IN /\ lag1 = IF k = 1 THEN Seed1 ELSE fillna(DemandOn(day - 1), 0)
           /\ (k > 1 /\ ~isnan(predictions[k - 1])) => lag1 = predictions[k - 1]
           /\ lag7 = IF k - 1 < 7 THEN Seed7 ELSE fillna(DemandOn(day - 7), 0)
           /\ (k = 1 /\ last_search_info.last_date = day - 1) =>
                 /\ lag1 = DemandOn(day - 1)
                 /\ Len(csv.rows) >= 7 => lag7 = DemandOn(day - 7)

\* A pipeline run whose source ends yesterday: day 0 was handed yesterday's
\* and last week's realized demand, day 1 the number predicted for day 0.
C3_Witness ==
    /\ caller = "main" /\ Len(calls) >= 2
    /\ last_search_info.last_date = today - 1
    /\ Handed(calls[1].X, "estimated_daily_searches_lag1") = RealizedDemand(today - 1)
    /\ Handed(calls[1].X, "estimated_daily_searches_lag7") = RealizedDemand(today - 7)
    /\ predictions[1] = 50
    /\ Handed(calls[2].X, "estimated_daily_searches_lag1") = 50
    /\ Handed(calls[2].X, "estimated_daily_searches_lag7") = RealizedDemand(today - 7)

\* C7: a run of main that met a fatal error (no model file, no forecast
\* weather, no feature table, a failed predictor call) has no results table:
\* the table exists only in runs where the forecast was fetched, the
\* features were prepared and every predictor call returned.
C7_NoResultsAfterFatal ==
    /\ pc \in {"stopped", "raised"} => results_df.none
    /\ (\E k \in 1..Len(calls) : calls[k].raised) => results_df.none
    /\ ~results_df.none =>
          /\ ~weather_forecast.none
          /\ ~forecast_features.none
          /\ ~returned.none
          /\ Len(results_df.rows) = Len(weather_forecast.rows)

\* The predictor failed on the third day of a pipeline run: two predictions
\* exist in the table and none is shown.
C7_Witness ==
    /\ caller = "main" /\ pc = "raised" /\ Len(predictions) = 2
    /\ ForecastRow(0).estimated_daily_searches = 50
    /\ results_df.none

\* C9: categorize_demand returns the tier CRITICAL exactly when value >= p90,
\* HIGH exactly when value < p90 and value >= p75, LOW exactly when value is
\* below both and value <= p25, NORMAL in every other case; and with
\* thresholds (1000, 2500, 3200) the six values of the claim get its tiers.
C9_Tiers ==
    pc = "categorized" =>
        LET v == cd_in.searches
            t == cd_in.stats
        IN /\ cd_out \in {"CRITICAL", "HIGH", "LOW", "NORMAL"}
           /\ (cd_out = "CRITICAL") <=> Ge(v, t.p90)
           /\ (cd_out = "HIGH") <=> (Lt(v, t.p90) /\ Ge(v, t.p75))
           /\ (cd_out = "LOW") <=> (Lt(v, t.p90) /\ Lt(v, t.p75) /\ Le(v, t.p25))
           /\ (cd_out = "NORMAL") <=>
                 ~(Ge(v, t.p90) \/ (Lt(v, t.p90) /\ Ge(v, t.p75))
                   \/ (Lt(v, t.p90) /\ Lt(v, t.p75) /\ Le(v, t.p25)))
           /\ t = [p25 |-> 1000, p75 |-> 2500, p90 |-> 3200] =>
                 /\ v = 3200 => cd_out = "CRITICAL"
                 /\ v \in {3199, 2500} => cd_out = "HIGH"
                 /\ v = 2499 => cd_out = "NORMAL"
                 /\ v \in {1000, 999} => cd_out = "LOW"

\* The boundary value 3200 classified under the thresholds of the claim.
C9_Witness ==
    /\ pc = "categorized"
    /\ cd_in = [searches |-> 3200, stats |-> [p25 |-> 1000, p75 |-> 2500, p90 |-> 3200]]
    /\ cd_out = "CRITICAL"

\* C10: build_weather_adjustment_paragraphs puts exactly one weather
\* paragraph in each text, the one of the first test that matches, in the
\* order cold-and-rainy, rainy-mild, warm-dry, mild-dry, cold, neutral, with
\* avg = (max + min) / 2; precipitation 20 with avg 3 gives cold-and-rainy.
C10_FirstMatch ==
    pc = "weather_text_done" =>
        LET p == wx_in.Precipitation
            avg2 == wx_in.Temp_Max + wx_in.Temp_Min
            c1 == p >= 5 * Scale /\ avg2 <= 20 * Scale
            c2 == p >= 5 * Scale /\ avg2 > 20 * Scale
            c3 == p < Scale /\ avg2 >= 50 * Scale
            c4 == p < Scale /\ avg2 > 20 * Scale /\ avg2 < 50 * Scale
            c5 == avg2 <= 20 * Scale /\ p < 5 * Scale
            chosen == wx_out.platform_text[1].about
        IN /\ Len(wx_out.platform_text) >= 1
           /\ Len(wx_out.restaurant_text) = 1
           /\ wx_out.restaurant_text[1].about = chosen
           /\ Cardinality({n \in 1..Len(wx_out.platform_text) :
                  wx_out.platform_text[n].about # "public holiday"}) = 1
           /\ c1 => chosen = "cold and rainy"
           /\ (~c1 /\ c2) => chosen = "rainy but relatively mild"
           /\ (~c1 /\ ~c2 /\ c3) => chosen = "very warm, dry"
           /\ (~c1 /\ ~c2 /\ ~c3 /\ c4) => chosen = "mild and dry"
           /\ (~c1 /\ ~c2 /\ ~c3 /\ ~c4 /\ c5) => chosen = "cold"
           /\ (~c1 /\ ~c2 /\ ~c3 /\ ~c4 /\ ~c5) => chosen = "neutral"
           /\ (p = 20 * Scale /\ avg2 = 6 * Scale) => chosen = "cold and rainy"

\* The day of the claim: 20 mm of rain at an average of 3 degrees.
C10_Witness ==
    /\ pc = "weather_text_done"
    /\ wx_in.Precipitation = 20 * Scale
    /\ wx_in.Temp_Max + wx_in.Temp_Min = 6 * Scale
    /\ wx_out.platform_text[1].about = "cold and rainy"

\* The holiday passages of a text.
HolidayParts(text) == {n \in 1..Len(text) : text[n].about = "public holiday"}

C12_AsStated ==
    (pc \in {"call_mp", "predict", "returned", "rendered", "raised"} /\ ~prepared_df.none) =>
        LET table == prepared_df.rows
            H == IF historical_weather.none THEN FallbackRows ELSE Len(historical_weather.rows)
            F == Len(weather_forecast.rows)
        IN /\ Len(table) = H + F
           /\ \A k \in 1..(Len(table) - 1) : table[k + 1].Day = table[k].Day + 1

\* The series the latest fetch returned, and the cities of the model.
Fetched == IF fetch_log.kind = "forecast" THEN weather_forecast ELSE historical_weather
Cities == 1..Len(SWISS_CITIES)
\* The cities whose request left an observation for date d: all dates when
\* the request went through, the first half of the window when it broke
\* part-way, none when it failed.
ReportingOn(d) ==
    {c \in Cities :
        \/ fetch_log.outcome[c] = "full"
        \/ fetch_log.outcome[c] = "partial"
           /\ 2 * (d - fetch_log.first + 1) <= fetch_log.last - fetch_log.first + 1}
RECURSIVE SumOver(_, _)
SumOver(S, f) == IF S = {} THEN 0 ELSE LET c == CHOOSE x \in S : TRUE IN f[c] + SumOver(S \ {c}, f)
\* pop / total population of the ten cities, in units of 1 / Scale.
Weight == [c \in Cities |-> 2 * SWISS_CITIES[c].pop]
RowsOn(d) == {k \in 1..Len(Fetched.rows) : Fetched.rows[k].Day = d}

\* C13: for every date present in the fetched observations the aggregator
\* returns exactly one row, whose temp_max, temp_min and precipitation are
\* the sums, over the cities that reported that date, of value times
\* (population / total population of all ten cities); the ten weights sum
\* to 1, and when a city is missing the weights are not renormalized, so
\* the weights used sum to less than 1.
C13_WeightedSums ==
    pc = "fetched" =>
        /\ SumOver(Cities, Weight) = Scale
        /\ \A k \in 1..Len(Fetched.rows) : Fetched.rows[k].Day \in fetch_log.first..fetch_log.last
        /\ \A d \in fetch_log.first..fetch_log.last :
              LET R == ReportingOn(d)
              IN IF R = {} THEN RowsOn(d) = {}
                 ELSE /\ Cardinality(RowsOn(d)) = 1
                      /\ \A k \in RowsOn(d) :
                            /\ Fetched.rows[k].Temp_Max
                                  = SumOver(R, [c \in R |-> ReadingMax(c, d) * Weight[c]])
                            /\ Fetched.rows[k].Temp_Min
                                  = SumOver(R, [c \in R |-> ReadingMin(c, d) * Weight[c]])
                            /\ Fetched.rows[k].Precipitation
                                  = SumOver(R, [c \in R |-> ReadingPrecip(c, d) * Weight[c]])
                      /\ (R # Cities) => SumOver(R, Weight) < Scale

\* A forecast fetch in which Zurich fails and Geneva breaks part-way: seven
\* rows, none built with all ten weights.
C13_Witness ==
    /\ pc = "fetched" /\ fetch_log.kind = "forecast"
    /\ fetch_log.outcome[1] = "fail" /\ fetch_log.outcome[2] = "partial"
    /\ Len(weather_forecast.rows) = ForecastDays
    /\ \A d \in fetch_log.first..fetch_log.last : 0 < SumOver(ReportingOn(d), Weight)
                                                    /\ SumOver(ReportingOn(d), Weight) < Scale

\* C14: a fetch in which some but not all cities fail returns an aggregated
\* series built from the cities that answered, and never raises; a fetch in
\* which every city fails returns None, not an empty series.  (A request
\* fails when it leaves no observation.)
C14_PartialFailure ==
    /\ pc # "raised"
    /\ pc = "fetched" =>
          LET failed == {c \in Cities : fetch_log.outcome[c] = "fail"}
          IN /\ (failed = Cities) => Fetched = None
             /\ (failed # Cities) =>
                   /\ ~Fetched.none
                   /\ Len(Fetched.rows) >= 1
                   /\ \A k \in 1..Len(Fetched.rows) :
                         LET d == Fetched.rows[k].Day
                         IN /\ ReportingOn(d) # {}
                            /\ ReportingOn(d) \cap failed = {}
                            /\ Fetched.rows[k].Temp_Max
                                  = SumOver(Cities \ failed,
                                            [c \in Cities \ failed |->
                                               IF c \in ReportingOn(d) THEN ReadingMax(c, d) * Weight[c]
                                               ELSE 0])

\* A historical fetch in which the three large cities fail and the seven
\* others answer: a series of all fifteen days.
C14_Witness ==
    /\ pc = "fetched" /\ fetch_log.kind = "historical"
    /\ \A c \in 1..3 : fetch_log.outcome[c] = "fail"
    /\ \A c \in 4..Len(SWISS_CITIES) : fetch_log.outcome[c] = "full"
    /\ ~historical_weather.none
    /\ Len(historical_weather.rows) = HistoricalDays + 1

\* C15: prepare_forecast_features returns no feature table whenever the
\* forecast-window weather has zero rows, with or without historical
\* weather; it never returns a table without forecast rows, and the
\* forecast rows it returns are the days of the forecast window.
C15_AsStated ==
    (caller = "unit" /\ pc \in {"call_mp", "no_table"}) =>
        /\ (Len(weather_forecast.rows) = 0) => (forecast_features.none /\ full_df.none)
        /\ ~forecast_features.none =>
              /\ Len(forecast_features.rows) >= 1
              /\ \A k \in 1..Len(forecast_features.rows) :
                    forecast_features.rows[k].Day = weather_forecast.rows[k].Day

AfterPrepare == pc \in {"call_mp", "predict", "returned", "rendered", "raised"}

\* C16: when fetch_historical_weather returned None and the forecast has
\* F >= 1 rows, main does not stop: the historical window is 14 copies of
\* the first forecast day, the forecast start index handed to
\* make_predictions (14) is the number of substituted rows, and the run
\* returns exactly F predictions.
C16_Fallback ==
    /\ ~(pc = "stopped" /\ fetch_log.kind = "historical")
    /\ (caller = "main" /\ AfterPrepare /\ historical_weather.none) =>
          LET F == Len(weather_forecast.rows)
              first == weather_forecast.rows[1]
              table == prepared_df.rows
          IN /\ F >= 1
             /\ Len(table) = FallbackRows + F
             /\ \A k \in 1..FallbackRows :
                   /\ table[k].Day = first.Day
                   /\ table[k].Temp_Max = first.Temp_Max
                   /\ table[k].Temp_Min = first.Temp_Min
                   /\ table[k].Precipitation = first.Precipitation
             /\ \A k \in 1..F : table[FallbackRows + k].Day = weather_forecast.rows[k].Day
             /\ Len(forecast_features.rows) = F
             /\ pc # "call_mp" => historical_len = FallbackRows
             /\ pc \in {"returned", "rendered"} => Len(returned.rows) = F

\* A pipeline run without historical weather that rendered seven predictions.
C16_Witness ==
    /\ caller = "main" /\ pc = "rendered" /\ historical_weather.none
    /\ Len(weather_forecast.rows) = ForecastDays
    /\ Len(returned.rows) = ForecastDays
    /\ historical_len = FallbackRows

\* What the first of the two calls returned and left in its table.
FirstRun == first_run.rows[1]

C18_SeedsOnEveryRow ==
    (caller = "main" /\ AfterPrepare) =>
        /\ pc = "call_mp" => full_df = prepared_df
        /\ Len(prepared_df.rows) >= Len(weather_forecast.rows) + 1
        /\ \A k \in 1..Len(prepared_df.rows) :
              /\ prepared_df.rows[k].estimated_daily_searches_lag1 = Seed1
              /\ prepared_df.rows[k].estimated_daily_searches_lag7 = Seed7
              /\ isnan(prepared_df.rows[k].estimated_daily_searches)
        /\ \A k \in 1..Len(forecast_features.rows) :
              /\ forecast_features.rows[k].estimated_daily_searches_lag1 = Seed1
              /\ forecast_features.rows[k].estimated_daily_searches_lag7 = Seed7
              /\ isnan(forecast_features.rows[k].estimated_daily_searches)

\* The table of a run that read ten days of demand (two different seeds) and
\* fetched both windows in full, as prepare_forecast_features returned it.
C18_Witness ==
    /\ caller = "main" /\ pc = "call_mp"
    /\ ~isnan(Seed1) /\ ~isnan(Seed7) /\ Seed1 # Seed7 /\ Seed7 # 2000
    /\ Len(full_df.rows) = HistoricalDays + 1 + ForecastDays
    /\ full_df.rows[1].estimated_daily_searches_lag7 = Seed7
    /\ full_df.rows[Len(full_df.rows)].estimated_daily_searches_lag1 = Seed1

\* The demand source of the run: its number of rows, its most recent date,
\* and the demand it records for day d.
CsvLen == IF csv.none THEN 0 ELSE Len(csv.rows)
CsvLatest == CHOOSE d \in {csv.rows[k].Day : k \in 1..CsvLen} :
                \A k \in 1..CsvLen : csv.rows[k].Day <= d
CsvDemand(d) == csv.rows[CHOOSE k \in 1..CsvLen : csv.rows[k].Day = d].estimated_daily_searches

\* C19, as stated: for a gap-free daily series of at least 8 rows,
\* last_search_value is the demand of the most recent date and
\* last_7days_ago_value the demand of the date exactly 7 days before the
\* most recent date; with fewer than 7 rows both seeds are the most recent
\* value; if the source cannot be read both are 2000.
C19_AsStated ==
    pc = "seeds_done" =>
        /\ CsvLen >= 8 =>
              /\ Seed1 = CsvDemand(CsvLatest)
              /\ Seed7 = CsvDemand(CsvLatest - 7)
        /\ CsvLen \in 1..6 => (Seed1 = CsvDemand(CsvLatest) /\ Seed7 = CsvDemand(CsvLatest))
        /\ csv.none => (Seed1 = 2000 /\ Seed7 = 2000)

\* C19, amended: for a gap-free daily series of at least 7 rows,
\* last_search_value is the demand of the most recent date and
\* last_7days_ago_value the demand of the date exactly 6 days before the
\* most recent date (the seventh most recent row); with fewer than 7 rows
\* both seeds are the most recent value; if the source cannot be read or
\* has no row both are 2000.
C19_SeventhMostRecent ==
    pc = "seeds_done" =>
        /\ CsvLen >= 7 =>
              /\ last_search_info.last_date = CsvLatest
              /\ Seed1 = CsvDemand(CsvLatest)
              /\ Seed7 = CsvDemand(CsvLatest - 6)
        /\ CsvLen \in 1..6 =>
              /\ last_search_info.last_date = CsvLatest
              /\ Seed1 = CsvDemand(CsvLatest)
              /\ Seed7 = CsvDemand(CsvLatest)
        /\ CsvLen = 0 => (last_search_info.last_date = NoDate /\ Seed1 = 2000 /\ Seed7 = 2000)

\* The longest series, stored newest first: the second seed is the demand
\* of six days before the latest date, not of seven days before.
C19_Witness ==
    /\ pc = "seeds_done" /\ CsvLen = MaxCsvRows
    /\ csv.rows[1].Day = CsvLatest
    /\ Seed1 = RealizedDemand(CsvLatest)
    /\ Seed7 = RealizedDemand(CsvLatest - 6)
    /\ Seed7 # CsvDemand(CsvLatest - 7)

\* A row with its three demand fields blanked.
WithoutDemand(row) ==
    [row EXCEPT !.estimated_daily_searches = 0,
                !.estimated_daily_searches_lag1 = 0,
                !.estimated_daily_searches_lag7 = 0]

\* C20: make_predictions leaves every weather, calendar, weather-derived,
\* weather-lag and rolling field of every row as it was; the only fields
\* that differ before and after a run are estimated_daily_searches,
\* estimated_daily_searches_lag1 and estimated_daily_searches_lag7.
C20_OnlyDemandFieldsChange ==
    (caller = "unit" /\ InLoop) =>
        /\ Len(full_df.rows) = Len(prepared_df.rows)
        /\ \A k \in 1..Len(full_df.rows) :
              WithoutDemand(full_df.rows[k]) = WithoutDemand(prepared_df.rows[k])

\* A run of eight days after one historical day has returned: the three
\* demand fields of the last row have changed, nothing else has.
C20_Witness ==
    /\ caller = "unit" /\ pc = "returned" /\ historical_len = 1 /\ F_now = MaxF
    /\ LET before == prepared_df.rows[Len(prepared_df.rows)]
           after == full_df.rows[Len(full_df.rows)]
       IN /\ after.estimated_daily_searches # before.estimated_daily_searches
          /\ after.estimated_daily_searches_lag1 # before.estimated_daily_searches_lag1
          /\ after.estimated_daily_searches_lag7 # before.estimated_daily_searches_lag7
          /\ after.Precipitation_7d = before.Precipitation_7d
          /\ after.Temp_Max_lag7 = before.Temp_Max_lag7

LagFields ==
    {"Temp_Max_lag1", "Temp_Min_lag1", "Precipitation_lag1", "estimated_daily_searches_lag1",
     "Temp_Max_lag7", "Temp_Min_lag7", "Precipitation_lag7", "estimated_daily_searches_lag7"}

\* C21: the vector handed to the predictor never contains an unset value:
\* a field that is unset (NaN) in the forecast row is delivered as 0, and
\* for every lag field that is the result of forward-filling the lag column
\* of the table down to the row and zero-filling what is left.
C21_AsStated ==
    \A k \in 1..Len(calls) :
        LET X == calls[k].X
            at == calls[k].idx + 1
        IN /\ \A n \in 1..Len(X) : ~isnan(X[n].value)
           /\ \A n \in 1..Len(X) : isnan(prepared_df.rows[at][X[n].name]) => X[n].value = 0
           /\ \A f \in LagFields : Handed(X, f) = fillna(ffill(full_df.rows, f, at), 0)

\* The raw value of a weather column on calendar day d, as the prepared
\* table knows it: NaN when the table has no row of that day.
RawOn(col, d) ==
    LET table == prepared_df.rows
    IN IF \E j \in 1..Len(table) : table[j].Day = d
       THEN table[CHOOSE j \in 1..Len(table) : table[j].Day = d][col]
       ELSE NaN

\* C22: in the table of a pipeline run (fetched historical window followed
\* by the forecast window, or the fallback), for every row and N in {1, 7},
\* the lag-N field of Temp_Max, Temp_Min and Precipitation holds the raw
\* value of the calendar date N days before the row's date.
C22_AsStated ==
    (caller = "main" /\ AfterPrepare) =>
        \A k \in 1..Len(prepared_df.rows) :
            LET row == prepared_df.rows[k]
            IN /\ row.Temp_Max_lag1 = RawOn("Temp_Max", row.Day - 1)
               /\ row.Temp_Min_lag1 = RawOn("Temp_Min", row.Day - 1)
               /\ row.Precipitation_lag1 = RawOn("Precipitation", row.Day - 1)
               /\ row.Temp_Max_lag7 = RawOn("Temp_Max", row.Day - 7)
               /\ row.Temp_Min_lag7 = RawOn("Temp_Min", row.Day - 7)
               /\ row.Precipitation_lag7 = RawOn("Precipitation", row.Day - 7)

\* C23: in every row of the feature table the weekday index is in 0..6, the
\* month in 1..12, is_weekend is 1 exactly when the weekday index is 5 or 6
\* and 0 otherwise, is_holiday is 0, and the three weekend-interaction
\* features are 0 on every row that is not a weekend day.
C23_CalendarFields ==
    (caller = "main" /\ AfterPrepare) =>
        /\ Len(full_df.rows) = Len(prepared_df.rows)
        /\ \A k \in 1..Len(full_df.rows) :
              LET row == full_df.rows[k]
              IN /\ row.dayofweek \in 0..6
                 /\ row.month_num \in 1..12
                 /\ row.is_weekend = (IF row.dayofweek \in {5, 6} THEN 1 ELSE 0)
                 /\ row.is_holiday = 0
                 /\ row.is_weekend = 0 =>
                       /\ row.Temp_Max_weekend = 0
                       /\ row.Precipitation_weekend = 0
                       /\ row.temp_comfort_weekend = 0

\* The table of a run with both windows fetched in full: it spans two
\* months, and holds a Saturday row whose interaction features carry the
\* day's weather next to a Friday row whose interaction features are 0.
C23_Witness ==
    /\ caller = "main" /\ pc = "call_mp"
    /\ Len(full_df.rows) = HistoricalDays + 1 + ForecastDays
    /\ \E k \in 1..(Len(full_df.rows) - 1) :
          /\ full_df.rows[k].dayofweek = 4 /\ full_df.rows[k].is_weekend = 0
          /\ full_df.rows[k].Temp_Max # 0 /\ full_df.rows[k].Temp_Max_weekend = 0
          /\ full_df.rows[k + 1].dayofweek = 5 /\ full_df.rows[k + 1].is_weekend = 1
          /\ full_df.rows[k + 1].Temp_Max_weekend = full_df.rows[k + 1].Temp_Max
          /\ full_df.rows[k + 1].Temp_Max_weekend # 0
    /\ {full_df.rows[k].month_num : k \in 1..Len(full_df.rows)} = {2, 3}

\* C24: for any thresholds, also when the bands overlap (p25 >= p75 or
\* p75 > p90), categorize_demand returns exactly one tier and the earlier
\* test wins: a value >= p75 or >= p90 is never LOW, even when it is also
\* <= p25, and a value >= p90 is always CRITICAL.
C24_EarlierCheckWins ==
    pc = "categorized" =>
        LET v == cd_in.searches
            t == cd_in.stats
        IN /\ Cardinality({tier \in {"CRITICAL", "HIGH", "LOW", "NORMAL"} : cd_out = tier}) = 1
           /\ (Ge(v, t.p75) \/ Ge(v, t.p90)) => cd_out # "LOW"
           /\ Ge(v, t.p90) => cd_out = "CRITICAL"
           /\ (Ge(v, t.p75) /\ ~Ge(v, t.p90)) => cd_out = "HIGH"

\* Overlapping bands: 1001 is at least p75 = 1000 and at most p25 = 3200,
\* and comes out HIGH.
C24_Witness ==
    /\ pc = "categorized"
    /\ cd_in = [searches |-> 1001, stats |-> [p25 |-> 3200, p75 |-> 1000, p90 |-> 2500]]
    /\ cd_out = "HIGH"

\* C25: the results table built in main has exactly one row per forecast
\* day, in date order; row i carries the date and the weather of forecast
\* day i as fetched, the prediction made for that day as its predicted
\* demand, and the tier categorize_demand gives for that prediction under
\* the historical thresholds.
C25_ResultsTable ==
    ~results_df.none =>
        LET results == results_df.rows
            days == weather_forecast.rows
        IN /\ Len(results) = Len(days)
           /\ Len(predictions) = Len(days)
           /\ \A n \in 1..(Len(results) - 1) : results[n].Day < results[n + 1].Day
           /\ \A n \in 1..Len(results) :
                 /\ results[n].Day = days[n].Day
                 /\ results[n].Temp_Max = days[n].Temp_Max
                 /\ results[n].Temp_Min = days[n].Temp_Min
                 /\ results[n].Precipitation = days[n].Precipitation
                 /\ results[n].Predicted_Searches = predictions[n]
                 /\ DayOfCall(n) = days[n].Day
                 /\ results[n].Demand_Category = categorize_demand(predictions[n], historical_stats)
                 /\ results[n].Demand_Category \in {"CRITICAL", "HIGH", "LOW", "NORMAL"}

\* A rendered run of seven days in which the first prediction is 50 (LOW
\* under the thresholds read from the source) and the second is NaN (NORMAL).
C25_Witness ==
    /\ pc = "rendered" /\ Len(results_df.rows) = ForecastDays
    /\ ~isnan(historical_stats.p25) /\ historical_stats.p25 # 1500
    /\ results_df.rows[1].Predicted_Searches = 50
    /\ results_df.rows[1].Demand_Category = "LOW"
    /\ isnan(results_df.rows[2].Predicted_Searches)
    /\ results_df.rows[2].Demand_Category = "NORMAL"
    /\ results_df.rows[ForecastDays].Day = today + ForecastDays - 1

\* C26: after the combined table is sorted by date, the rows at indices
\* >= len(historical rows) are exactly the days of the forecast window in
\* ascending date order, so the index make_predictions starts from is the
\* row of the first forecast day: in a run whose historical dates are all
\* earlier than the forecast dates, and in the fallback, whose 14
\* substituted rows carry the date of the first forecast day.
C26_ForecastStartIndex ==
    (caller = "main" /\ AfterPrepare) =>
        LET table == prepared_df.rows
            days == weather_forecast.rows
            H == IF historical_weather.none THEN FallbackRows ELSE Len(historical_weather.rows)
        IN /\ Len(table) = H + Len(days)
           /\ \A n \in 1..Len(days) :
                 /\ table[H + n].Day = days[n].Day
                 /\ table[H + n].Temp_Max = days[n].Temp_Max
                 /\ table[H + n].Temp_Min = days[n].Temp_Min
                 /\ table[H + n].Precipitation = days[n].Precipitation
                 /\ forecast_features.rows[n] = table[H + n]
           /\ \A n \in 1..(Len(days) - 1) : table[H + n].Day < table[H + n + 1].Day
           /\ \A k \in 1..H : table[k].Day <= days[1].Day
           /\ ~historical_weather.none =>
                 \A k \in 1..H : /\ table[k].Day = historical_weather.rows[k].Day
                                 /\ table[k].Day < days[1].Day
           /\ pc # "call_mp" => historical_len = H
           /\ Len(calls) >= 1 => (calls[1].idx = H /\ DayOfCall(1) = days[1].Day)

\* The fallback: the first call is made on row 14, the first forecast day,
\* which follows fourteen rows of the same date.
C26_Witness ==
    /\ caller = "main" /\ pc = "predict" /\ Len(calls) = 1
    /\ historical_weather.none
    /\ calls[1].idx = FallbackRows
    /\ full_df.rows[FallbackRows].Day = today
    /\ full_df.rows[FallbackRows + 1].Day = today
    /\ full_df.rows[FallbackRows + 2].Day = today + 1

\* C27: the neutral branch of build_weather_adjustment_paragraphs is taken
\* exactly when 1 <= precipitation < 5 and the average temperature is above
\* 10; every other pair of precipitation and average temperature takes one
\* of the five earlier branches.
C27_NeutralBranch ==
    pc = "weather_text_done" =>
        LET p == wx_in.Precipitation
            avg2 == wx_in.Temp_Max + wx_in.Temp_Min
            between == p >= Scale /\ p < 5 * Scale /\ avg2 > 20 * Scale
            branch == wx_out.restaurant_text[1].about
        IN /\ (branch = "neutral") <=> between
           /\ ~between => branch \in {"cold and rainy", "rainy but relatively mild", "very warm, dry",
                                      "mild and dry", "cold"}
           /\ wx_out.platform_text[1].about = branch

\* The lower edges of the neutral band: 1 mm at an average of 10.5 degrees
\* is neutral.
C27_Witness ==
    /\ pc = "weather_text_done"
    /\ wx_in.Precipitation = Scale
    /\ wx_in.Temp_Max + wx_in.Temp_Min = 21 * Scale
    /\ wx_out.platform_text[1].about = "neutral"
    /\ wx_out.restaurant_text[1].about = "neutral"

\* C28: the restaurant text build_weather_adjustment_paragraphs returns
\* depends only on the weather branch: for the same weather it is the same
\* whether is_holiday is true or false, and only the platform text changes
\* with is_holiday.
C28_RestaurantTextIgnoresHoliday ==
    pc = "weather_text_again" =>
        LET first == first_run.rows[1]
            holiday(row) == row.has_holiday /\ row.is_holiday # 0
        IN /\ first.row.Temp_Max = wx_in.Temp_Max
           /\ first.row.Temp_Min = wx_in.Temp_Min
           /\ first.row.Precipitation = wx_in.Precipitation
           /\ holiday(first.row) # holiday(wx_in)
           /\ wx_out.restaurant_text = first.texts.restaurant_text
           /\ wx_out.platform_text # first.texts.platform_text
           /\ wx_out.platform_text[1] = first.texts.platform_text[1]

\* A rainy cold day described first as a holiday, then as an ordinary day:
\* the platform text loses its holiday passage, the restaurant text stays.
C28_Witness ==
    /\ pc = "weather_text_again"
    /\ first_run.rows[1].row.is_holiday = 1 /\ wx_in.is_holiday = 0
    /\ wx_out.restaurant_text[1].about = "cold and rainy"
    /\ Len(first_run.rows[1].texts.platform_text) = 2
    /\ Len(wx_out.platform_text) = 1
    /\ first_run.rows[1].texts.restaurant_text = wx_out.restaurant_text

\* The aggregated row of date d (a row of zeros when the series has none),
\* and what city c adds to it: the row's value less the weighted readings of
\* the other cities that reported d.
AggregatedOn(d) ==
    IF RowsOn(d) = {} THEN [Day |-> d, Temp_Max |-> 0, Temp_Min |-> 0, Precipitation |-> 0]
    ELSE Fetched.rows[CHOOSE k \in RowsOn(d) : TRUE]
ShareOf(c, d) ==
    LET others == ReportingOn(d) \ {c}
    IN [Temp_Max |-> AggregatedOn(d).Temp_Max
                       - SumOver(others, [o \in others |-> ReadingMax(o, d) * Weight[o]]),
        Precipitation |-> AggregatedOn(d).Precipitation
                       - SumOver(others, [o \in others |-> ReadingPrecip(o, d) * Weight[o]])]
\* The first date a request that broke part-way did not read.
BrokeOn == fetch_log.first + (fetch_log.last - fetch_log.first + 1) \div 2

\* C29, as stated: a city contributes to every date of the window or to
\* none; when reading its response fails part-way, none of its observations
\* for the earlier dates remains in the data that is aggregated.
C29_AsStated ==
    pc = "fetched" =>
        \A c \in Cities :
            \/ \A d \in fetch_log.first..fetch_log.last :
                  ShareOf(c, d).Temp_Max = ReadingMax(c, d) * Weight[c]
            \/ \A d \in fetch_log.first..fetch_log.last : ShareOf(c, d).Temp_Max = 0

\* C29, amended: a city whose response fails part-way, on date j,
\* contributes its observations of the dates before j and nothing from j
\* on; a city whose request fails before any date is read contributes to no
\* date, and a city whose response is read through contributes to every
\* date.
C29_EarlierDatesRemain ==
    pc = "fetched" =>
        \A c \in Cities : \A d \in fetch_log.first..fetch_log.last :
            LET share == ShareOf(c, d)
                present == \/ fetch_log.outcome[c] = "full"
                           \/ fetch_log.outcome[c] = "partial" /\ d < BrokeOn
            IN /\ present =>
                     /\ share.Temp_Max = ReadingMax(c, d) * Weight[c]
                     /\ share.Precipitation = ReadingPrecip(c, d) * Weight[c]
                     /\ RowsOn(d) # {}
               /\ ~present => (share.Temp_Max = 0 /\ share.Precipitation = 0)

\* A forecast fetch in which only Geneva's response breaks part-way: the
\* first day's row holds Geneva's reading, the last day's row does not.
C29_Witness ==
    /\ pc = "fetched" /\ fetch_log.kind = "forecast"
    /\ fetch_log.outcome[2] = "partial"
    /\ \A c \in Cities \ {2} : fetch_log.outcome[c] = "full"
    /\ Len(weather_forecast.rows) = ForecastDays
    /\ ShareOf(2, fetch_log.first).Temp_Max = ReadingMax(2, fetch_log.first) * Weight[2]
    /\ ShareOf(2, fetch_log.first).Temp_Max > 0
    /\ ShareOf(2, fetch_log.last).Temp_Max = 0
    /\ ReadingMax(2, fetch_log.last) > 0

\* C30: after any sequence of role-button clicks, sidebar role switches and
\* "Back to Welcome Screen" clicks, user_type_selected is true exactly when
\* user_type is one of the three role identifiers and false exactly when it
\* is None, and main is past its gate, in the forecasting pipeline, only
\* while user_type_selected is true.
C30_SelectedIffRole ==
    /\ user_type_selected \in BOOLEAN
    /\ user_type_selected <=> user_type \in role_options
    /\ ~user_type_selected <=> user_type = NoRole
    /\ SidebarShown => user_type_selected

\* The pipeline has built its results table in a session whose role is the
\* driver's: the role was chosen on the landing page or in the sidebar.
C30_Witness ==
    /\ caller = "main" /\ pc = "rendered" /\ ~results_df.none
    /\ user_type = ROLE_DRIVER /\ user_type_selected

====
